---- MODULE Spec2Model ----
(***************************************************************************)
(* A model of the proof visualizer: the S-expression parser (SExprParser), *)
(* the converter with its binding environment (SExprToTree), the loader   *)
(* (FileLoader / FileInputUI) and the lazy tree display (ProofVisualizer). *)
(*                                                                         *)
(* Text is a sequence of one-character strings; an atom is the sequence of *)
(* its characters.  Positions are 0-based as in the source, so the         *)
(* character at position p of text s is s[p + 1].                          *)
(***************************************************************************)
EXTENDS Naturals, Integers, Sequences, FiniteSets, TLC

VARIABLES
    \* ---- SExprParser (one parser object) ----
    input,      \* this.input
    pos,        \* this.pos
    call,       \* the public method called on it: "none", "parseAll", "parse"
    results,    \* parseAll's local `results`
    result,     \* parse's local `result`
    ppc,        \* where the call is: "new", "loop", "returned", "raised"
    perr,       \* the error that was thrown last (caught or propagated)
    caught,     \* TRUE once parseAll's catch block has run
    \* ---- SExprToTree and the TreeNode objects ----
    heap,       \* every TreeNode created so far, in creation order; a node's
                \* identity is its index
    leafMap,    \* SExprToTree.leafMap: name -> TreeNode identity
    \* ---- ProofVisualizer (the tree container's DOM) ----
    elems,      \* the node elements in the container, in creation order
    rootElems,  \* the root elements, one per tree section, in order
    emptyMessage, \* the container shows 'No S-expressions found in file'
    \* ---- FileInputUI / main ----
    loads,      \* the texts that have arrived, one per load, in order of arrival
    log,        \* the calls of main's callbacks, in order
    attempts,   \* the loads that have ended, in order: where the text was to
                \* come from and what became of getting it
    requests,   \* the loads started by loadFile / loadURL, in order; a load
                \* is known by its index
    inflight,   \* the loads whose text is awaited (reader.readAsText, fetch)
    settled,    \* the promises of loadFromFile / loadFromURL that are
                \* settled and whose awaiting loadFile / loadURL has not
                \* run on yet, in the order they were settled
    completed   \* the loads whose loadFile / loadURL has run to its end,
                \* in that order

parserVars == <<input, pos, call, results, result, ppc, perr, caught>>

convVars == <<heap, leafMap>>

vizVars == <<elems, rootElems, emptyMessage>>

loadVars == <<loads, log, attempts, requests, inflight, settled, completed>>

vars == <<input, pos, call, results, result, ppc, perr, caught,
          heap, leafMap, elems, rootElems, emptyMessage, loads, log, attempts,
          requests, inflight, settled, completed>>

(***************************************************************************)
(* Bounds                                                                  *)
(***************************************************************************)
\* Longest text handed to a parser object.
MaxLen == 4

\* Loads in one session.
MaxLoads == 2

\* Loads shown in one session of clicking.
MaxRenders == 2

\* Longest text after the opening double quote of a quoted string.
MaxBody == 3

\* Longest text of atoms and what separates them.
MaxAtomText == 3

\* Most pieces a text with comments is put together from.
MaxPieces == 4

(***************************************************************************)
(* SExpr = string | SExpr[]                                                *)
(***************************************************************************)
Atom(s) == [t |-> "atom", s |-> s, items |-> <<>>]

List(xs) == [t |-> "list", s |-> <<>>, items |-> xs]

\* What a call that threw has as its value.
NoExpr == [t |-> "none", s |-> <<>>, items |-> <<>>]

IsAtom(e) == e.t = "atom"

IsList(e) == e.t = "list"

(***************************************************************************)
(* Errors.  `kind` names the thrown message, `position` is the offset the  *)
(* message text carries (NoPosition when the message has none).            *)
(***************************************************************************)
NoPosition == -1

NoError == [kind |-> "none", position |-> NoPosition]

Error(kind, position) == [kind |-> kind, position |-> position]

\* A call's outcome: ok, the value, this.pos after the call (also when it
\* threw), and the error when it threw.
Ok(val, p) == [ok |-> TRUE, val |-> val, pos |-> p, err |-> NoError]

Throw(kind, position, p) ==
    [ok |-> FALSE, val |-> NoExpr, pos |-> p, err |-> Error(kind, position)]

\* `const r = v; ...`: the value v under the name K gives it
With(v, K(_)) == K(v)

(***************************************************************************)
(* SExprParser                                                             *)
(***************************************************************************)
CharAt(s, p) == s[p + 1]

\* input.substring(start, end)
Substring(s, start, end) == SubSeq(s, start + 1, end)

IsSpace(c) == c \in {" ", "\t", "\n", "\r"}

\* the inner loop of skipWhitespace running on over the ends of lines
skipLineToEnd(s, p) == Len(s)

RECURSIVE skipLine(_, _)
\* the inner loop of skipWhitespace: up to, not past, the newline
skipLine(s, p) ==
    IF p < Len(s) /\ CharAt(s, p) # "\n" THEN skipLine(s, p + 1) ELSE p

RECURSIVE skipWhitespace(_, _)
skipWhitespace(s, p) ==
    IF p < Len(s)
    THEN LET char == CharAt(s, p)
         IN  IF IsSpace(char) THEN skipWhitespace(s, p + 1)
             ELSE IF char = ";" THEN skipWhitespace(s, skipLine(s, p))
             ELSE p
    ELSE p

RECURSIVE parseStringLoop(_, _, _, _)
\* the loop of parseString keeping the backslash before a character that
\* is no escape
parseStringLoopKeepingBackslash(s, p, res, escaped) ==
    IF p < Len(s)
    THEN LET char == CharAt(s, p)
         IN  IF escaped
             THEN LET out == IF char = "n" THEN <<"\n">>
                             ELSE IF char = "t" THEN <<"\t">>
                             ELSE IF char = "r" THEN <<"\r">>
                             ELSE IF char = "\\" THEN <<"\\">>
                             ELSE IF char = "\"" THEN <<"\"">>
                             ELSE <<"\\", char>>
                  IN  parseStringLoop(s, p + 1, res \o out, FALSE)
             ELSE IF char = "\\" THEN parseStringLoop(s, p + 1, res, TRUE)
             ELSE IF char = "\"" THEN Ok(Atom(res), p + 1)
             ELSE parseStringLoop(s, p + 1, Append(res, char), FALSE)
    ELSE Throw("Unclosed string literal", NoPosition, p)

\* the while loop of parseString
parseStringLoop(s, p, res, escaped) ==
    IF p < Len(s)
    THEN LET char == CharAt(s, p)
         IN  IF escaped
             THEN LET out == IF char = "n" THEN "\n"
                             ELSE IF char = "t" THEN "\t"
                             ELSE IF char = "r" THEN "\r"
                             ELSE IF char = "\\" THEN "\\"
                             ELSE IF char = "\"" THEN "\""
                             ELSE char
                  IN  parseStringLoop(s, p + 1, Append(res, out), FALSE)
             ELSE IF char = "\\" THEN parseStringLoop(s, p + 1, res, TRUE)
             ELSE IF char = "\"" THEN Ok(Atom(res), p + 1)
             ELSE parseStringLoop(s, p + 1, Append(res, char), FALSE)
    ELSE Throw("Unclosed string literal", NoPosition, p)

parseString(s, p) ==
    IF CharAt(s, p) # "\""
    THEN Throw("Expected '\"'", p, p)
    ELSE parseStringLoop(s, p + 1, <<>>, FALSE)

RECURSIVE quotedAtomEnd(_, _)
\* the loop of parseQuotedAtom taking a backslash as an escape of the
\* character after it
quotedAtomEndEscaping(s, p) ==
    IF p < Len(s) /\ CharAt(s, p) = "\\" THEN quotedAtomEnd(s, p + 2)
    ELSE IF p < Len(s) /\ CharAt(s, p) # "|" THEN quotedAtomEnd(s, p + 1)
    ELSE IF p < Len(s) THEN p
    ELSE Len(s)

\* the while loop of parseQuotedAtom
quotedAtomEnd(s, p) ==
    IF p < Len(s) /\ CharAt(s, p) # "|" THEN quotedAtomEnd(s, p + 1) ELSE p

parseQuotedAtom(s, p) ==
    IF CharAt(s, p) # "|"
    THEN Throw("Expected '|'", p, p)
    ELSE LET start == p + 1
             end == quotedAtomEnd(s, start)
         IN  IF end >= Len(s)
             THEN Throw("Unclosed quoted atom: missing closing |", NoPosition, end)
             ELSE Ok(Atom(Substring(s, start, end)), end + 1)

RECURSIVE atomEnd(_, _)
\* the loop of parseAtom ending an atom at a double quote or a bar as well
atomEndAtQuote(s, p) ==
    IF p < Len(s)
    THEN LET c == CharAt(s, p)
         IN  IF IsSpace(c) \/ c = "(" \/ c = ")" \/ c = "\"" \/ c = "|" THEN p
             ELSE atomEnd(s, p + 1)
    ELSE p

\* the loop of parseAtom ending an atom at a ';' as well
atomEndAtComment(s, p) ==
    IF p < Len(s)
    THEN LET c == CharAt(s, p)
         IN  IF IsSpace(c) \/ c = "(" \/ c = ")" \/ c = ";" THEN p
             ELSE atomEnd(s, p + 1)
    ELSE p

\* the while loop of parseAtom (unquoted atoms)
atomEnd(s, p) ==
    IF p < Len(s)
    THEN LET c == CharAt(s, p)
         IN  IF IsSpace(c) \/ c = "(" \/ c = ")" THEN p ELSE atomEnd(s, p + 1)
    ELSE p

parseAtom(s, p0) ==
    LET p == skipWhitespace(s, p0)
    IN  IF p >= Len(s)
        THEN Throw("Unexpected end of input while parsing atom", NoPosition, p)
        ELSE LET char == CharAt(s, p)
             IN  IF char = "\"" THEN parseString(s, p)
                 ELSE IF char = "|" THEN parseQuotedAtom(s, p)
                 ELSE LET end == atomEnd(s, p)
                      IN  Ok(Atom(Substring(s, p, end)), end)

RECURSIVE parseExpr(_, _)
RECURSIVE parseListLoop(_, _, _)

\* the while loop of parseList returning what it has when the input ends
parseListLoopReturningPartial(s, p, list) ==
    IF p < Len(s) /\ CharAt(s, p) # ")"
    THEN With(parseExpr(s, p), LAMBDA r :
             IF r.ok
             THEN parseListLoop(s, skipWhitespace(s, r.pos), Append(list, r.val))
             ELSE r)
    ELSE IF p >= Len(s)
         THEN Ok(List(list), p)
         ELSE Ok(List(list), p + 1)

\* the while loop of parseList and what follows it
parseListLoop(s, p, list) ==
    IF p < Len(s) /\ CharAt(s, p) # ")"
    THEN With(parseExpr(s, p), LAMBDA r :
             IF r.ok
             THEN parseListLoop(s, skipWhitespace(s, r.pos), Append(list, r.val))
             ELSE r)
    ELSE IF p >= Len(s)
         THEN Throw("Unclosed list: missing closing parenthesis", NoPosition, p)
         ELSE Ok(List(list), p + 1)

parseList(s, p) ==
    IF CharAt(s, p) # "("
    THEN Throw("Expected '('", p, p)
    ELSE parseListLoop(s, skipWhitespace(s, p + 1), <<>>)

\* parseExpr as it would be if the ')' were consumed before the throw
parseExprConsumingParen(s, p0) ==
    LET p == skipWhitespace(s, p0)
    IN  IF p >= Len(s)
        THEN Throw("Unexpected end of input", NoPosition, p)
        ELSE LET char == CharAt(s, p)
             IN  IF char = "(" THEN parseList(s, p)
                 ELSE IF char = ")" THEN Throw("Unexpected ')'", p, p + 1)
                 ELSE parseAtom(s, p)

parseExpr(s, p0) ==
    LET p == skipWhitespace(s, p0)
    IN  IF p >= Len(s)
        THEN Throw("Unexpected end of input", NoPosition, p)
        ELSE LET char == CharAt(s, p)
             IN  IF char = "(" THEN parseList(s, p)
                 ELSE IF char = ")" THEN Throw("Unexpected ')'", p, p)
                 ELSE parseAtom(s, p)

\* parse() as it would be without the test that follows the expression
parseWithoutTrailingTest(s, p0) ==
    With(parseExpr(s, skipWhitespace(s, p0)), LAMBDA r :
        IF ~r.ok THEN r ELSE Ok(r.val, skipWhitespace(s, r.pos)))

\* parse(): the whole call
parse(s, p0) ==
    With(parseExpr(s, skipWhitespace(s, p0)), LAMBDA r :
        IF ~r.ok THEN r
        ELSE With(skipWhitespace(s, r.pos), LAMBDA p :
                 IF p < Len(s)
                 THEN Throw("Unexpected characters", p, p)
                 ELSE Ok(r.val, p)))

\* the body of parseAll's loop as it would be if the catch block always
\* left the loop
tryCatchSwallowing(s, p, res) ==
    With(parseExpr(s, p), LAMBDA r :
    With(skipWhitespace(s, r.pos), LAMBDA q :
        IF r.ok
        THEN [pc |-> "loop", pos |-> q, results |-> Append(res, r.val),
              caught |-> FALSE, err |-> NoError]
        ELSE [pc |-> "returned", pos |-> q, results |-> res,
              caught |-> TRUE, err |-> r.err]))

\* the body of parseAll's loop as it would be if the catch block went on
\* with the loop where it rethrows
tryCatchContinuing(s, p, res) ==
    With(parseExpr(s, p), LAMBDA r :
    With(skipWhitespace(s, r.pos), LAMBDA q :
        IF r.ok
        THEN [pc |-> "loop", pos |-> q, results |-> Append(res, r.val),
              caught |-> FALSE, err |-> NoError]
        ELSE [pc |-> IF q >= Len(s) THEN "returned" ELSE "loop",
              pos |-> q, results |-> res, caught |-> TRUE, err |-> r.err]))

\* the body of parseAll's loop, entered at position p with `res` collected:
\* where the call is afterwards, this.pos, results, and what was caught
tryCatch(s, p, res) ==
    With(parseExpr(s, p), LAMBDA r :
    With(skipWhitespace(s, r.pos), LAMBDA q :
        IF r.ok
        THEN [pc |-> "loop", pos |-> q, results |-> Append(res, r.val),
              caught |-> FALSE, err |-> NoError]
        ELSE [pc |-> IF q >= Len(s) THEN "returned" ELSE "raised",
              pos |-> q, results |-> res, caught |-> TRUE, err |-> r.err]))

RECURSIVE parseAllLoop(_, _, _)
\* parseAll's loop from position p on: the array returned, or the error
parseAllLoop(s, p, res) ==
    IF p < Len(s)
    THEN With(tryCatch(s, p, res), LAMBDA it :
             IF it.pc = "loop" THEN parseAllLoop(s, it.pos, it.results)
             ELSE IF it.pc = "returned"
             THEN [ok |-> TRUE, vals |-> it.results, pos |-> it.pos, err |-> NoError]
             ELSE [ok |-> FALSE, vals |-> <<>>, pos |-> it.pos, err |-> it.err])
    ELSE [ok |-> TRUE, vals |-> res, pos |-> p, err |-> NoError]

\* parseAll(), the whole call on a new parser object
parseAll(s) == parseAllLoop(s, skipWhitespace(s, 0), <<>>)

(***************************************************************************)
(* SExprToTree.  The converter reads and writes leafMap and creates        *)
(* TreeNode objects; every operator takes the heap and the map and returns *)
(* them as the call left them, also when it threw.                         *)
(***************************************************************************)
\* a TreeNode { name, children }; children holds node identities
Node(name, children) == [hasName |-> TRUE, name |-> name, children |-> children]

\* the fallback's TreeNode { children: [] }
UnnamedNode == [hasName |-> FALSE, name |-> <<>>, children |-> <<>>]

\* a call that returned node `id`
Done(id, h, m) ==
    [ok |-> TRUE, node |-> id, nodes |-> <<>>, heap |-> h, leafMap |-> m,
     err |-> NoError]

\* a call that returned the array `ids`
DoneArray(ids, h, m) ==
    [ok |-> TRUE, node |-> 0, nodes |-> ids, heap |-> h, leafMap |-> m,
     err |-> NoError]

\* a call that created `node` and returned it
New(node, h, m) == Done(Len(h) + 1, Append(h, node), m)

\* a call that threw
Fail(kind, h, m) ==
    [ok |-> FALSE, node |-> 0, nodes |-> <<>>, heap |-> h, leafMap |-> m,
     err |-> Error(kind, NoPosition)]

\* leafMap.set(name, id)
MapSet(m, name, id) ==
    [k \in DOMAIN m \cup {name} |-> IF k = name THEN id ELSE m[k]]

LetAtom == Atom(<<"l", "e", "t">>)

LetProofAtom == Atom(<<"l", "e", "t", "-", "p", "r", "o", "o", "f">>)

isKeyword(expr) == IsAtom(expr) /\ Len(expr.s) > 0 /\ expr.s[1] = ":"

RECURSIVE makeString(_)
RECURSIVE joinStrings(_, _)

\* expr.map(makeString).join(' ') from the i-th element on
joinStrings(xs, i) ==
    IF i > Len(xs) THEN <<>>
    ELSE IF i = Len(xs) THEN makeString(xs[i])
    ELSE makeString(xs[i]) \o <<" ">> \o joinStrings(xs, i + 1)

\* makeString without the parentheses around a list
makeStringFlat(expr) ==
    IF IsAtom(expr) THEN expr.s
    ELSE joinStrings(expr.items, 1)

makeString(expr) ==
    IF IsAtom(expr) THEN expr.s
    ELSE <<"(">> \o joinStrings(expr.items, 1) \o <<")">>

RECURSIVE convert(_, _, _)
RECURSIVE convertEach(_, _, _, _, _)
RECURSIVE convertLetLoop(_, _, _, _, _)
RECURSIVE convertChildren(_, _, _, _, _)

\* convert's copy of the mapped node in place of the node itself
convertStringCopying(expr, h, m) ==
    IF expr.s \in DOMAIN m
    THEN New(h[m[expr.s]], h, m)
    ELSE New(Node(expr.s, <<>>), h, m)

\* convert's branch for a string keeping the new leaf in leafMap
convertStringMemoizing(expr, h, m) ==
    IF expr.s \in DOMAIN m
    THEN Done(m[expr.s], h, m)
    ELSE New(Node(expr.s, <<>>), h, MapSet(m, expr.s, Len(h) + 1))

\* convert's branch for a string: the mapped TreeNode, or a new leaf
convertString(expr, h, m) ==
    IF expr.s \in DOMAIN m
    THEN Done(m[expr.s], h, m)
    ELSE New(Node(expr.s, <<>>), h, m)

\* expr.map((x) => this.convert(x)) from the i-th element on
convertEach(xs, i, acc, h, m) ==
    IF i > Len(xs) THEN DoneArray(acc, h, m)
    ELSE With(convert(xs[i], h, m), LAMBDA r :
             IF r.ok
             THEN convertEach(xs, i + 1, Append(acc, r.node), r.heap, r.leafMap)
             ELSE r)

\* convertToArray converting a string like any other expression
convertToArrayLookingUp(expr, h, m) ==
    IF IsAtom(expr)
    THEN With(convert(expr, h, m), LAMBDA r : DoneArray(<<r.node>>, r.heap, r.leafMap))
    ELSE convertEach(expr.items, 1, <<>>, h, m)

\* convertToArray passing a list to convert as one expression
convertToArrayWhole(expr, h, m) ==
    IF IsAtom(expr)
    THEN DoneArray(<<Len(h) + 1>>, Append(h, Node(expr.s, <<>>)), m)
    ELSE With(convert(expr, h, m), LAMBDA r :
             IF r.ok THEN DoneArray(<<r.node>>, r.heap, r.leafMap) ELSE r)

convertToArray(expr, h, m) ==
    IF IsAtom(expr)
    THEN DoneArray(<<Len(h) + 1>>, Append(h, Node(expr.s, <<>>)), m)
    ELSE convertEach(expr.items, 1, <<>>, h, m)

\* convertLet's loop with the wrapper stored in leafMap before its value is
\* converted
convertLetLoopStoringFirst(bindings, i, body, h, m) ==
    IF i > Len(bindings) THEN convert(body, h, m)
    ELSE LET binding == bindings[i]
         IN  IF ~IsList(binding) \/ Len(binding.items) # 2
             THEN Fail("Expected tuple for binding", h, m)
             ELSE LET name == binding.items[1]
                      value == binding.items[2]
                      id == Len(h) + 1
                  IN  IF ~IsAtom(name)
                      THEN Fail("Expected string for binding name", h, m)
                      ELSE With(convert(value, Append(h, Node(name.s, <<>>)),
                                        MapSet(m, name.s, id)), LAMBDA r :
                               IF ~r.ok THEN r
                               ELSE convertLetLoop(bindings, i + 1, body,
                                        [r.heap EXCEPT ![id].children = <<r.node>>],
                                        r.leafMap))

\* convertLet's loop putting the new value into the wrapper a bound name
\* already has
convertLetLoopReusingWrapper(bindings, i, body, h, m) ==
    IF i > Len(bindings) THEN convert(body, h, m)
    ELSE LET binding == bindings[i]
         IN  IF ~IsList(binding) \/ Len(binding.items) # 2
             THEN Fail("Expected tuple for binding", h, m)
             ELSE LET name == binding.items[1]
                      value == binding.items[2]
                  IN  IF ~IsAtom(name)
                      THEN Fail("Expected string for binding name", h, m)
                      ELSE With(convert(value, h, m), LAMBDA r :
                               IF ~r.ok THEN r
                               ELSE IF name.s \in DOMAIN r.leafMap
                               THEN convertLetLoop(bindings, i + 1, body,
                                        [r.heap EXCEPT ![r.leafMap[name.s]].children
                                                           = <<r.node>>],
                                        r.leafMap)
                               ELSE LET valueNode == Node(name.s, <<r.node>>)
                                        id == Len(r.heap) + 1
                                    IN  convertLetLoop(bindings, i + 1, body,
                                            Append(r.heap, valueNode),
                                            MapSet(r.leafMap, name.s, id)))

\* convertLet's loop running over the bindings from the last to the first
convertLetLoopBackwards(bindings, i, body, h, m) ==
    IF i > Len(bindings) THEN convert(body, h, m)
    ELSE LET binding == bindings[Len(bindings) + 1 - i]
         IN  IF ~IsList(binding) \/ Len(binding.items) # 2
             THEN Fail("Expected tuple for binding", h, m)
             ELSE LET name == binding.items[1]
                      value == binding.items[2]
                  IN  IF ~IsAtom(name)
                      THEN Fail("Expected string for binding name", h, m)
                      ELSE With(convert(value, h, m), LAMBDA r :
                               IF ~r.ok THEN r
                               ELSE LET valueNode == Node(name.s, <<r.node>>)
                                        id == Len(r.heap) + 1
                                    IN  convertLetLoop(bindings, i + 1, body,
                                            Append(r.heap, valueNode),
                                            MapSet(r.leafMap, name.s, id)))

\* the for loop of convertLet from the i-th binding on, then the body
convertLetLoop(bindings, i, body, h, m) ==
    IF i > Len(bindings) THEN convert(body, h, m)
    ELSE LET binding == bindings[i]
         IN  IF ~IsList(binding) \/ Len(binding.items) # 2
             THEN Fail("Expected tuple for binding", h, m)
             ELSE LET name == binding.items[1]
                      value == binding.items[2]
                  IN  IF ~IsAtom(name)
                      THEN Fail("Expected string for binding name", h, m)
                      ELSE With(convert(value, h, m), LAMBDA r :
                               IF ~r.ok THEN r
                               ELSE LET valueNode == Node(name.s, <<r.node>>)
                                        id == Len(r.heap) + 1
                                    IN  convertLetLoop(bindings, i + 1, body,
                                            Append(r.heap, valueNode),
                                            MapSet(r.leafMap, name.s, id)))

\* convertLet taking its bindings out of leafMap again after the body
convertLetScoped(bindings, body, h, m) ==
    With(convertLetLoop(bindings, 1, body, h, m), LAMBDA r :
        IF r.ok THEN [r EXCEPT !.leafMap = m] ELSE r)

convertLet(bindings, body, h, m) == convertLetLoop(bindings, 1, body, h, m)

\* the for loop of convert over expr[1..], at 1-based index i (the source's
\* i is i - 1)
convertChildren(expr, i, children, h, m) ==
    IF i > Len(expr) THEN DoneArray(children, h, m)
    ELSE IF i < Len(expr) /\ isKeyword(expr[i]) /\ ~isKeyword(expr[i + 1])
    THEN With(convertToArray(expr[i + 1], h, m), LAMBDA r :
             IF ~r.ok THEN r
             ELSE LET keywordNode == Node(expr[i].s, r.nodes)
                      id == Len(r.heap) + 1
                  IN  convertChildren(expr, i + 2, Append(children, id),
                                      Append(r.heap, keywordNode), r.leafMap))
    ELSE With(convert(expr[i], h, m), LAMBDA r :
             IF ~r.ok THEN r
             ELSE convertChildren(expr, i + 1, Append(children, r.node),
                                  r.heap, r.leafMap))

convert(expr, h, m) ==
    IF IsAtom(expr)
    THEN convertString(expr, h, m)
    ELSE IF IsList(expr)
    THEN IF Len(expr.items) = 0
         THEN New(Node(<<"(", ")">>, <<>>), h, m)
         ELSE IF /\ Len(expr.items) = 3
                 /\ expr.items[1] = LetAtom \/ expr.items[1] = LetProofAtom
         THEN LET bindings == expr.items[2]
                  body == expr.items[3]
              IN  IF ~IsList(bindings)
                  THEN Fail("Expected list of bindings for let/let-proof", h, m)
                  ELSE convertLet(bindings.items, body, h, m)
         ELSE LET first == expr.items[1]
                  name == IF IsAtom(first) THEN first.s ELSE makeString(first)
              IN  With(convertChildren(expr.items, 2, <<>>, h, m), LAMBDA r :
                      IF ~r.ok THEN r
                      ELSE New(Node(name, r.nodes), r.heap, r.leafMap))
    ELSE New(UnnamedNode, h, m)

(***************************************************************************)
(* One parser object, from its construction to the end of the one public   *)
(* call made on it.  parseAll's while loop takes one step per iteration.   *)
(***************************************************************************)
\* The characters texts are drawn from.
Alphabet == {"(", ")", " ", "\n", ";", "a", "\"", "|", "\\"}

Texts == UNION {[1..n -> Alphabet] : n \in 0..MaxLen}

\* constructor(input)
SExprParser(text) ==
    /\ input = text
    /\ pos = 0
    /\ call = "none"
    /\ results = <<>>
    /\ result = NoExpr
    /\ ppc = "new"
    /\ perr = NoError
    /\ caught = FALSE

\* parseAll(), up to the loop's first test
parseAllEnter ==
    /\ ppc = "new"
    /\ call' = "parseAll"
    /\ results' = <<>>
    /\ pos' = skipWhitespace(input, pos)
    /\ ppc' = "loop"
    /\ UNCHANGED <<input, result, perr, caught>>
    /\ UNCHANGED <<convVars, vizVars, loadVars>>

\* one iteration of parseAll's loop: the try block, or the catch block
parseAllIteration ==
    /\ ppc = "loop"
    /\ pos < Len(input)
    /\ \E it \in {tryCatch(input, pos, results)} :
           /\ pos' = it.pos
           /\ results' = it.results
           /\ ppc' = it.pc
           /\ caught' = it.caught
           /\ perr' = IF it.caught THEN it.err ELSE perr
    /\ UNCHANGED <<input, call, result>>
    /\ UNCHANGED <<convVars, vizVars, loadVars>>

\* the loop's test fails: return results
parseAllReturn ==
    /\ ppc = "loop"
    /\ pos >= Len(input)
    /\ ppc' = "returned"
    /\ UNCHANGED <<input, pos, call, results, result, perr, caught>>
    /\ UNCHANGED <<convVars, vizVars, loadVars>>

\* parse(), the whole call
parseCall ==
    /\ ppc = "new"
    /\ call' = "parse"
    /\ \E r \in {parse(input, pos)} :
           /\ pos' = r.pos
           /\ result' = r.val
           /\ perr' = r.err
           /\ ppc' = IF r.ok THEN "returned" ELSE "raised"
    /\ UNCHANGED <<input, results, caught>>
    /\ UNCHANGED <<convVars, vizVars, loadVars>>

\* The rest of the program, untouched while a parser object is looked at alone.
Idle ==
    /\ heap = <<>>
    /\ leafMap = <<>>
    /\ elems = <<>>
    /\ rootElems = <<>>
    /\ emptyMessage = FALSE
    /\ loads = <<>>
    /\ log = <<>>
    /\ attempts = <<>>
    /\ requests = <<>>
    /\ inflight = {}
    /\ settled = <<>>
    /\ completed = <<>>

ParserInit == Idle /\ \E text \in Texts : SExprParser(text)

ParserNext == parseAllEnter \/ parseAllIteration \/ parseAllReturn \/ parseCall

SpecParser == ParserInit /\ [][ParserNext]_vars

(***************************************************************************)
(* Properties of the parser                                                *)
(***************************************************************************)
RECURSIVE OnlyBlank(_, _, _)
\* From the i-th character on (1-based), s holds nothing but whitespace and
\* comments; inComment says that the i-th character lies in a comment.
OnlyBlank(s, i, inComment) ==
    \/ i > Len(s)
    \/ /\ inComment
       /\ OnlyBlank(s, i + 1, s[i] # "\n")
    \/ /\ ~inComment
       /\ s[i] = ";" \/ IsSpace(s[i])
       /\ OnlyBlank(s, i + 1, s[i] = ";")

RECURSIVE Attempts(_, _, _)
\* The top-level parse attempts on s from position p, where `done` holds
\* the expressions completed so far: whether one failed, the expressions
\* completed before it, the position at which the parser stopped, the error.
Attempts(s, p, done) ==
    IF OnlyBlank(s, p + 1, FALSE)
    THEN [failed |-> FALSE, done |-> done, stop |-> Len(s), err |-> NoError]
    ELSE LET r == parseExpr(s, p)
         IN  IF r.ok
             THEN Attempts(s, r.pos, Append(done, r.val))
             ELSE [failed |-> TRUE, done |-> done, stop |-> r.pos, err |-> r.err]

ParseAllEnded == call = "parseAll" /\ ppc \in {"returned", "raised"}

ParseEnded == call = "parse" /\ ppc \in {"returned", "raised"}

UnclosedKinds ==
    {"Unclosed list: missing closing parenthesis", "Unclosed string literal",
     "Unclosed quoted atom: missing closing |"}

\* C1: when a top-level parse attempt of parseAll fails and nothing but
\* whitespace and comments is left from the position where the parser
\* stopped, parseAll returns exactly the expressions completed before the
\* failure, in order; otherwise the error propagates and nothing is returned.
C1_FailedAttempt ==
    ParseAllEnded =>
        LET t == Attempts(input, 0, <<>>)
        IN  /\ caught = t.failed
            /\ t.failed =>
                   IF OnlyBlank(input, t.stop + 1, FALSE)
                   THEN ppc = "returned" /\ results = t.done
                   ELSE ppc = "raised" /\ perr = t.err
            /\ ~t.failed => ppc = "returned" /\ results = t.done

\* a failure swallowed after a completed expression
C1_Witness ==
    /\ ParseAllEnded
    /\ caught
    /\ ppc = "returned"
    /\ Len(results) >= 1

\* C2 as claimed: a malformed final fragment of any kind, a lone ")"
\* included, with only whitespace and comments after it is tolerated, and a
\* malformed fragment followed by other content makes parseAll raise.
C2_AnyFragmentTolerated ==
    ParseAllEnded =>
        LET t == Attempts(input, 0, <<>>)
            \* the first position after the fragment: a ")" is one
            \* character, an unclosed list, string or quoted atom runs on
            after == IF t.err.kind = "Unexpected ')'" THEN t.stop + 1 ELSE Len(input)
        IN  t.failed =>
                IF OnlyBlank(input, after + 1, FALSE)
                THEN ppc = "returned" /\ results = t.done
                ELSE ppc = "raised"

\* C2, amended: an unclosed list, string or quoted atom runs to the end of
\* the input and is tolerated (parseAll returns the expressions completed
\* before it); a ")" where a top-level expression is expected makes parseAll
\* raise, whatever follows it.  No other failure occurs in parseAll.
C2_UnclosedToleratedParenRaises ==
    ParseAllEnded =>
        LET t == Attempts(input, 0, <<>>)
        IN  t.failed =>
                /\ t.err.kind \in UnclosedKinds \cup {"Unexpected ')'"}
                /\ t.err.kind \in UnclosedKinds =>
                       /\ t.stop = Len(input)
                       /\ ppc = "returned"
                       /\ results = t.done
                /\ t.err.kind = "Unexpected ')'" =>
                       /\ t.stop < Len(input)
                       /\ CharAt(input, t.stop) = ")"
                       /\ ppc = "raised"
                       /\ perr = Error("Unexpected ')'", t.stop)

\* a ")" after a completed expression, with only whitespace after it: raised
C2_Witness ==
    /\ ParseAllEnded
    /\ ppc = "raised"
    /\ perr.kind = "Unexpected ')'"
    /\ Len(results) >= 1
    /\ perr.position + 1 < Len(input)
    /\ OnlyBlank(input, perr.position + 2, FALSE)

\* C3: parse returns an expression only if nothing but whitespace and
\* comments follows the first complete expression; if anything else follows
\* it, parse raises and returns no value.
C3_ParseOneTrailing ==
    ParseEnded =>
        LET r == parseExpr(input, 0)
        IN  /\ ppc = "returned" =>
                   /\ r.ok
                   /\ result = r.val
                   /\ OnlyBlank(input, r.pos + 1, FALSE)
            /\ (r.ok /\ ~OnlyBlank(input, r.pos + 1, FALSE)) =>
                   /\ ppc = "raised"
                   /\ perr.kind = "Unexpected characters"
                   /\ result = NoExpr

\* a complete list followed by another expression: raised
C3_Witness ==
    /\ ParseEnded
    /\ ppc = "raised"
    /\ perr.kind = "Unexpected characters"
    /\ parseExpr(input, 0).ok
    /\ IsList(parseExpr(input, 0).val)

(***************************************************************************)
(* ProofVisualizer (the later version in the file).  An element is one     *)
(* occurrence of a TreeNode in the container: the nodeDiv made by          *)
(* createNodeElement, with its children container and its click handler's  *)
(* closure.  parent is the element whose children container holds it (0    *)
(* for a root element).                                                    *)
(***************************************************************************)
\* createNodeElement showing the children container of a root from the start
createNodeElementRootOpen(h, node, isRoot, parent) ==
    [node |-> node,
     isRoot |-> isRoot,
     parent |-> parent,
     hasChildren |-> Len(h[node].children) > 0,
     display |-> IF isRoot /\ Len(h[node].children) > 0 THEN "block" ELSE "none",
     rendered |-> FALSE,
     isExpanded |-> isRoot /\ Len(h[node].children) > 0,
     expanded |-> isRoot /\ Len(h[node].children) > 0,
     childElems |-> <<>>]

\* createNodeElement(node, isRoot), for the TreeNode `node` of heap h,
\* appended to the children container of `parent`
createNodeElement(h, node, isRoot, parent) ==
    [node |-> node,
     isRoot |-> isRoot,
     parent |-> parent,
     \* hasChildren: the children container and the click listener exist
     hasChildren |-> Len(h[node].children) > 0,
     display |-> "none",          \* childrenContainer.style.display
     rendered |-> FALSE,          \* the data-rendered attribute
     isExpanded |-> FALSE,        \* the listener's closure variable
     expanded |-> FALSE,          \* the box's class 'expanded'
     childElems |-> <<>>]         \* the children container's child elements

\* renderChildren(node, container) for the container of element e: the new
\* element store
renderChildren(h, es, e) ==
    LET children == h[es[e].node].children
        created == [i \in 1..Len(children) |->
                        createNodeElement(h, children[i], FALSE, e)]
        ids == [i \in 1..Len(children) |-> Len(es) + i]
    IN  IF Len(children) = 0 THEN es
        ELSE [es EXCEPT ![e].childElems = ids] \o created

\* the click listener rendering the children on every expand
clickListenerRenderingAgain(h, es, e) ==
    LET isExpanded == ~es[e].isExpanded
        toggled == [es EXCEPT ![e].isExpanded = isExpanded,
                              ![e].display = IF isExpanded THEN "block" ELSE "none",
                              ![e].expanded = isExpanded]
    IN  IF isExpanded
        THEN [renderChildren(h, toggled, e) EXCEPT ![e].rendered = TRUE]
        ELSE toggled

\* the click listener with the data-rendered mark kept on the TreeNode: it
\* is set on every element of the node
clickListenerMarkingNode(h, es, e) ==
    LET isExpanded == ~es[e].isExpanded
        toggled == [es EXCEPT ![e].isExpanded = isExpanded,
                              ![e].display = IF isExpanded THEN "block" ELSE "none",
                              ![e].expanded = isExpanded]
        after == renderChildren(h, toggled, e)
    IN  IF isExpanded /\ ~es[e].rendered
        THEN [o \in DOMAIN after |->
                 IF o \in DOMAIN es /\ es[o].node = es[e].node
                 THEN [after[o] EXCEPT !.rendered = TRUE]
                 ELSE after[o]]
        ELSE toggled

\* the click listener emptying the children container on collapse
clickListenerDiscarding(h, es, e) ==
    LET isExpanded == ~es[e].isExpanded
        toggled == [es EXCEPT ![e].isExpanded = isExpanded,
                              ![e].display = IF isExpanded THEN "block" ELSE "none",
                              ![e].expanded = isExpanded]
    IN  IF isExpanded /\ ~es[e].rendered
        THEN [renderChildren(h, toggled, e) EXCEPT ![e].rendered = TRUE]
        ELSE IF ~isExpanded
        THEN [toggled EXCEPT ![e].rendered = FALSE, ![e].childElems = <<>>]
        ELSE toggled

\* the click listener with a test of data-rendered that never succeeds
clickListenerNeverRendering(h, es, e) ==
    LET isExpanded == ~es[e].isExpanded
    IN  [es EXCEPT ![e].isExpanded = isExpanded,
                   ![e].display = IF isExpanded THEN "block" ELSE "none",
                   ![e].expanded = isExpanded]

\* the click listener of element e's box
clickListener(h, es, e) ==
    LET isExpanded == ~es[e].isExpanded
        toggled == [es EXCEPT ![e].isExpanded = isExpanded,
                              ![e].display = IF isExpanded THEN "block" ELSE "none",
                              ![e].expanded = isExpanded]
    IN  IF isExpanded /\ ~es[e].rendered
        THEN [renderChildren(h, toggled, e) EXCEPT ![e].rendered = TRUE]
        ELSE toggled

RECURSIVE Visible(_, _)
\* element e is shown: every children container around it is displayed
Visible(es, e) ==
    IF es[e].parent = 0 THEN TRUE
    ELSE IF es[es[e].parent].display = "block" THEN Visible(es, es[e].parent)
    ELSE FALSE

\* renderAll without the clearing of the container
renderAllKeepingOld(h, roots) ==
    IF Len(roots) = 0
    THEN /\ elems' = elems
         /\ rootElems' = rootElems
         /\ emptyMessage' = TRUE
    ELSE /\ elems' = elems \o [i \in 1..Len(roots) |->
                                   createNodeElement(h, roots[i], TRUE, 0)]
         /\ rootElems' = rootElems \o [i \in 1..Len(roots) |-> Len(elems) + i]
         /\ emptyMessage' = emptyMessage

\* renderAll(roots) on heap h
renderAll(h, roots) ==
    IF Len(roots) = 0
    THEN /\ elems' = <<>>
         /\ rootElems' = <<>>
         /\ emptyMessage' = TRUE
    ELSE /\ elems' = [i \in 1..Len(roots) |-> createNodeElement(h, roots[i], TRUE, 0)]
         /\ rootElems' = [i \in 1..Len(roots) |-> i]
         /\ emptyMessage' = FALSE

\* a click on the box of element e; a box without children has no listener
Click(e) ==
    /\ e \in DOMAIN elems
    /\ Visible(elems, e)
    /\ elems' = IF elems[e].hasChildren THEN clickListener(heap, elems, e) ELSE elems
    /\ UNCHANGED <<rootElems, emptyMessage>>
    /\ UNCHANGED <<parserVars, convVars, loadVars>>

(***************************************************************************)
(* FileLoader.parseContent and the callbacks of main: what runs when the   *)
(* text of a load has arrived.                                             *)
(***************************************************************************)
\* parseContent converting every document against an empty leafMap
parseContentClearing(content, h, m) ==
    With(parseAll(content), LAMBDA sExprs :
        IF ~sExprs.ok
        THEN [ok |-> FALSE, node |-> 0, nodes |-> <<>>, heap |-> h,
              leafMap |-> m, err |-> sExprs.err]
        ELSE convertEach(sExprs.vals, 1, <<>>, h, <<>>))

\* parseContent whose catch block returns no trees in place of rethrowing
parseContentSwallowing(content, h, m) ==
    With(parseAll(content), LAMBDA sExprs :
        IF ~sExprs.ok
        THEN [ok |-> TRUE, node |-> 0, nodes |-> <<>>, heap |-> h,
              leafMap |-> m, err |-> NoError]
        ELSE With(convertEach(sExprs.vals, 1, <<>>, h, m), LAMBDA r :
                 IF r.ok THEN r
                 ELSE [r EXCEPT !.ok = TRUE, !.nodes = <<>>, !.err = NoError]))

\* parseContent putting leafMap back as it was when a conversion throws
parseContentRollingBack(content, h, m) ==
    With(parseAll(content), LAMBDA sExprs :
        IF ~sExprs.ok
        THEN [ok |-> FALSE, node |-> 0, nodes |-> <<>>, heap |-> h,
              leafMap |-> m, err |-> sExprs.err]
        ELSE With(convertEach(sExprs.vals, 1, <<>>, h, m), LAMBDA r :
                 IF r.ok THEN r ELSE [r EXCEPT !.leafMap = m]))

\* parseContent(content) on heap h and map m: the trees, or the error
parseContent(content, h, m) ==
    With(parseAll(content), LAMBDA sExprs :
        IF ~sExprs.ok
        THEN [ok |-> FALSE, node |-> 0, nodes |-> <<>>, heap |-> h,
              leafMap |-> m, err |-> sExprs.err]
        ELSE convertEach(sExprs.vals, 1, <<>>, h, m))

\* an entry of the log of main's callbacks
Callback(cb, trees, err) == [cb |-> cb, trees |-> trees, err |-> err]

\* a load that has ended: source is "file" or "url"; outcome is "text" when
\* the text was obtained, else what went wrong in getting it
Attempt(source, outcome) == [source |-> source, outcome |-> outcome]

\* the text `content` of a load has arrived: parseContent, then
\* onTreeLoaded(trees) -> renderAll(trees), or onError(error)
TextArrived(content) ==
    \E r \in {parseContent(content, heap, leafMap)} :
        /\ heap' = r.heap
        /\ leafMap' = r.leafMap
        /\ loads' = Append(loads, content)
        /\ attempts' = Append(attempts, Attempt("file", "text"))
        /\ IF r.ok
           THEN /\ log' = Append(log, Callback("onTreeLoaded", r.nodes, NoError))
                /\ renderAll(r.heap, r.nodes)
           ELSE /\ log' = Append(log, Callback("onError", <<>>, r.err))
                /\ UNCHANGED vizVars
        /\ UNCHANGED parserVars
        /\ UNCHANGED <<requests, inflight, settled, completed>>

\* reader.onerror: the file could not be read
FileReadFailed ==
    /\ attempts' = Append(attempts, Attempt("file", "read error"))
    /\ log' = Append(log, Callback("onError", <<>>,
                                   Error("Failed to read file", NoPosition)))
    /\ UNCHANGED <<loads, parserVars, convVars, vizVars>>
    /\ UNCHANGED <<requests, inflight, settled, completed>>

\* new Error(`${prefix}: ${cause.message}`)
ErrorAbout(prefix, cause) ==
    [kind |-> prefix, position |-> cause.position, cause |-> cause]

\* the catch block of loadFromURL for the error thrown in its try block;
\* fetchTypeError: it is a TypeError whose message holds 'fetch'
loadFromURLCatch(error, fetchTypeError) ==
    IF fetchTypeError
    THEN ErrorAbout("Network error", error)
    ELSE ErrorAbout("Failed to load from URL", error)

\* fetch, or reading the response, threw
FetchFailed(fetchTypeError) ==
    /\ attempts' = Append(attempts, Attempt("url", "network error"))
    /\ log' = Append(log, Callback("onError", <<>>,
                   loadFromURLCatch(Error("fetch failed", NoPosition),
                                    fetchTypeError)))
    /\ UNCHANGED <<loads, parserVars, convVars, vizVars>>
    /\ UNCHANGED <<requests, inflight, settled, completed>>

\* the response arrived and is not ok
ResponseNotOk ==
    /\ attempts' = Append(attempts, Attempt("url", "HTTP error"))
    /\ log' = Append(log, Callback("onError", <<>>,
                   loadFromURLCatch(Error("HTTP", NoPosition), FALSE)))
    /\ UNCHANGED <<loads, parserVars, convVars, vizVars>>
    /\ UNCHANGED <<requests, inflight, settled, completed>>

\* the text `content` of a response has arrived: parseContent inside the
\* try block of loadFromURL, then onTreeLoaded(trees) -> renderAll(trees),
\* or onError(error)
ResponseTextArrived(content) ==
    \E r \in {parseContent(content, heap, leafMap)} :
        /\ heap' = r.heap
        /\ leafMap' = r.leafMap
        /\ loads' = Append(loads, content)
        /\ attempts' = Append(attempts, Attempt("url", "text"))
        /\ IF r.ok
           THEN /\ log' = Append(log, Callback("onTreeLoaded", r.nodes, NoError))
                /\ renderAll(r.heap, r.nodes)
           ELSE /\ log' = Append(log, Callback("onError", <<>>,
                                              loadFromURLCatch(r.err, FALSE)))
                /\ UNCHANGED vizVars
        /\ UNCHANGED parserVars
        /\ UNCHANGED <<requests, inflight, settled, completed>>

(***************************************************************************)
(* The documents loaded.  A document is written as its top-level           *)
(* expressions; its text is their rendering, separated by spaces.          *)
(***************************************************************************)
X == Atom(<<"x">>)

Y == Atom(<<"y">>)

Av == Atom(<<"a">>)

F == Atom(<<"f">>)

G == Atom(<<"g">>)

Kw == Atom(<<":", "k">>)

Bind(name, value) == List(<<name, value>>)

LetOf(bindings, body) == List(<<LetAtom, List(bindings), body>>)

TextOf(doc) == joinStrings(doc, 1)

WellFormedDocs ==
    { <<>>,
      <<X>>,
      <<Av>>,
      <<List(<<F, X, X>>)>>,
      <<List(<<F, Av, Av>>)>>,
      <<List(<<>>)>>,
      <<List(<<List(<<Av, X>>), X>>)>>,
      <<List(<<F, Kw, X>>)>>,
      <<List(<<F, Kw, List(<<X, Av>>)>>)>>,
      <<List(<<F, Kw>>)>>,
      <<LetOf(<<Bind(X, Av)>>, List(<<F, X, X>>))>>,
      <<LetOf(<<Bind(X, Av)>>, X)>>,
      <<LetOf(<<Bind(X, List(<<F, X>>))>>, X)>>,
      <<LetOf(<<Bind(X, Av), Bind(Y, X)>>, List(<<F, X, Y>>))>>,
      <<LetOf(<<Bind(Y, X), Bind(X, Av)>>, Y)>>,
      <<LetOf(<<Bind(X, Av), Bind(X, Y)>>, X)>>,
      <<List(<<LetProofAtom, List(<<Bind(Y, List(<<G, X>>))>>), List(<<F, Y, X>>)>>)>>,
      <<LetOf(<<>>, Av)>>,
      <<List(<<F, X, LetOf(<<Bind(X, Av)>>, X), X>>)>>,
      <<LetOf(<<Bind(X, LetOf(<<Bind(Y, Av)>>, Y))>>, List(<<F, X, Y>>))>>,
      \* lists headed by let that are no binding form, or are not converted
      <<List(<<LetAtom, Av>>)>>,
      <<List(<<LetAtom, List(<<Bind(X, Av)>>), X, Y>>)>>,
      <<List(<<LetOf(<<Bind(X, Av)>>, X), Av>>)>>,
      <<List(<<F, Kw, LetOf(<<Bind(X, Av)>>, X)>>)>>,
      \* several top-level expressions
      <<LetOf(<<Bind(X, Av)>>, X), X>>,
      <<X, LetOf(<<Bind(X, Av)>>, X)>> }

MalformedBindingDocs ==
    { <<List(<<LetAtom, X, Av>>)>>,
      <<List(<<LetAtom, List(<<X>>), Av>>)>>,
      <<LetOf(<<List(<<X>>)>>, Av)>>,
      <<LetOf(<<List(<<X, Av, Av>>)>>, Av)>>,
      <<LetOf(<<Bind(List(<<F>>), Av)>>, Av)>>,
      <<LetOf(<<Bind(X, Av), List(<<Y>>)>>, X)>>,
      <<List(<<F, List(<<LetAtom, X, Av>>)>>)>>,
      <<Av, List(<<LetAtom, X, Av>>)>>,
      <<LetOf(<<Bind(X, Av)>>, X), List(<<LetAtom, Y, Av>>)>> }

\* texts on which parseAll stops early or raises
BrokenTexts == { <<")">>, <<"(", "f", " ", "x">>, <<"a", " ", ")">> }

Contents ==
    {TextOf(doc) : doc \in WellFormedDocs \cup MalformedBindingDocs}
        \cup BrokenTexts

\* The documents clicked through: a node shared twice under one parent, a
\* node shared under two parents, two roots of which one has no children,
\* no expression at all, and a text that does not parse.
VizContents ==
    { TextOf(<<LetOf(<<Bind(X, Av)>>, List(<<F, X, X>>))>>),
      TextOf(<<List(<<F, LetOf(<<Bind(X, List(<<G, Av>>))>>, X), List(<<G, X>>)>>)>>),
      TextOf(<<List(<<F, List(<<G, Av>>), Av>>), Av>>),
      <<>>,
      <<")">> }

(***************************************************************************)
(* A session of loads, each text handled as it arrives.                    *)
(***************************************************************************)
\* no parser object is looked at on its own
ParserIdle == SExprParser(<<>>)

SessionInit == ParserIdle /\ Idle

LoadText ==
    \E content \in Contents :
        /\ Len(loads) < MaxLoads
        /\ TextArrived(content)

SessionNext == LoadText

SpecSession == SessionInit /\ [][SessionNext]_vars

\* the entry of the log for load i
Delivered(i) == log[i].cb = "onTreeLoaded"

Range(f) == {f[i] : i \in DOMAIN f}

\* atoms converted against every heap and leafMap a session reaches
ProbeAtoms == {X, Y, Av}

\* values bound in (let ((x VALUE)) (f x x)) against every such state
ProbeValues == {Av, Y, List(<<G, Av>>)}

SharingDoc == <<LetOf(<<Bind(X, Av)>>, List(<<F, X, X>>))>>

\* C4: converting an atom that is a key of leafMap returns the very node
\* stored under it and creates nothing; converting an atom that is no key
\* creates a new childless leaf of that name, a different one at every
\* conversion; so the occurrences of x in the body of (let ((x VALUE)) (f x x))
\* are one node named x whose single child is the node VALUE converts to.
C4_AtomSharedOrFresh ==
    /\ \A a \in ProbeAtoms :
         With(convert(a, heap, leafMap), LAMBDA r :
             IF a.s \in DOMAIN leafMap
             THEN r = Done(leafMap[a.s], heap, leafMap)
             ELSE /\ r.ok
                  /\ r.node = Len(heap) + 1
                  /\ r.heap = Append(heap, Node(a.s, <<>>))
                  /\ r.leafMap = leafMap
                  /\ With(convert(a, r.heap, r.leafMap), LAMBDA again :
                         /\ again.ok
                         /\ again.node \notin 1..Len(r.heap)
                         /\ again.heap[again.node] = Node(a.s, <<>>)))
    /\ \A v \in ProbeValues :
         With(convert(v, heap, leafMap), LAMBDA val :
         With(convert(LetOf(<<Bind(X, v)>>, List(<<F, X, X>>)), heap, leafMap),
              LAMBDA r :
             /\ val.ok /\ r.ok
             /\ Len(r.heap[r.node].children) = 2
             /\ With(r.heap[r.node].children[1], LAMBDA w :
                    /\ r.heap[r.node].children = <<w, w>>
                    /\ r.heap[w] = Node(X.s, <<val.node>>)
                    /\ r.leafMap[X.s] = w
                    /\ SubSeq(r.heap, 1, Len(val.heap)) = val.heap)))
    /\ \A i \in DOMAIN loads :
         loads[i] = TextOf(SharingDoc) =>
             /\ Delivered(i)
             /\ Len(log[i].trees) = 1
             /\ With(heap[log[i].trees[1]], LAMBDA root :
                    /\ root.name = F.s
                    /\ Len(root.children) = 2
                    /\ root.children[1] = root.children[2]
                    /\ heap[root.children[1]].name = X.s
                    /\ Len(heap[root.children[1]].children) = 1)

\* (let ((x a)) (f x x)) was delivered after x had been bound before: the
\* two children of f are one node named x with one child
C4_Witness ==
    /\ Len(loads) = 2
    /\ loads[2] = TextOf(SharingDoc)
    /\ Delivered(1) /\ Delivered(2)
    /\ X.s \in DOMAIN leafMap
    /\ Y.s \notin DOMAIN leafMap
    /\ Len(log[1].trees) = 1
    /\ leafMap[X.s] # log[1].trees[1]
    /\ heap[log[2].trees[1]].children = <<leafMap[X.s], leafMap[X.s]>>

\* the nodes the nodes of S have as children
ChildrenOf(S) ==
    UNION {Range(heap[n].children) : n \in S}

RECURSIVE Closure(_)
\* S and everything reachable from it through children
Closure(S) ==
    IF ChildrenOf(S) \subseteq S THEN S ELSE Closure(S \cup ChildrenOf(S))

\* the nodes reachable from n in one step or more
Descendants(n) == Closure(ChildrenOf({n}))

\* the roots returned so far and the entries of leafMap
Held ==
    UNION {Range(log[i].trees) : i \in DOMAIN log} \cup Range(leafMap)

\* C5: no node reachable through children from a returned root or from an
\* entry of leafMap reaches itself.
C5_NoCycle == \A n \in Closure(Held) : n \notin Descendants(n)

\* a name was bound again to a value that mentions it: its node has the
\* node of the earlier binding below it
C5_Witness ==
    \E k \in DOMAIN leafMap :
        \E d \in Descendants(leafMap[k]) :
            /\ heap[d].hasName
            /\ heap[d].name = k
            /\ heap[d].children # <<>>

\* C6: no step removes a key from leafMap, and a document that is one atom,
\* loaded when that atom is a key, delivers the node stored under it and
\* creates no node.
C6_BindingsKept ==
    [][ /\ DOMAIN leafMap \subseteq DOMAIN leafMap'
        /\ \A a \in ProbeAtoms :
             (a.s \in DOMAIN leafMap /\ loads' = Append(loads, TextOf(<<a>>)))
                 => /\ log' = Append(log, Callback("onTreeLoaded",
                                                   <<leafMap[a.s]>>, NoError))
                    /\ heap' = heap
                    /\ leafMap' = leafMap ]_vars

\* x of a second document is the node the first document built for x
C6_Witness ==
    /\ Len(loads) = 2
    /\ loads[1] = TextOf(<<LetOf(<<Bind(X, Av)>>, X)>>)
    /\ loads[2] = TextOf(<<X>>)
    /\ Delivered(1) /\ Delivered(2)
    /\ log[2].trees = log[1].trees
    /\ heap[log[2].trees[1]] = Node(X.s, <<1>>)

\* an entry of BINDINGS that is no 2-element list, or whose NAME is no atom
BadEntry(b) ==
    IF ~IsList(b) THEN TRUE
    ELSE IF Len(b.items) # 2 THEN TRUE
    ELSE ~IsAtom(b.items[1])

\* a 3-element list headed by let or let-proof
IsLetForm(e) ==
    IF ~IsList(e) THEN FALSE
    ELSE IF Len(e.items) # 3 THEN FALSE
    ELSE e.items[1] \in {LetAtom, LetProofAtom}

RECURSIVE HitsMalformed(_)
RECURSIVE HitsMalformedFrom(_, _)

\* converting e reaches a let form whose BINDINGS is no list or has a bad
\* entry: in a binding's VALUE, in a body, in a child, or in an element of
\* the list that follows a keyword
HitsMalformed(e) ==
    IF ~IsList(e) THEN FALSE
    ELSE IF Len(e.items) = 0 THEN FALSE
    ELSE IF IsLetForm(e)
    THEN IF ~IsList(e.items[2]) THEN TRUE
         ELSE IF \E i \in DOMAIN e.items[2].items : BadEntry(e.items[2].items[i])
         THEN TRUE
         ELSE IF \E i \in DOMAIN e.items[2].items :
                     HitsMalformed(e.items[2].items[i].items[2])
         THEN TRUE
         ELSE HitsMalformed(e.items[3])
    ELSE HitsMalformedFrom(e.items, 2)

\* the same for the elements of a list from the i-th on
HitsMalformedFrom(xs, i) ==
    IF i > Len(xs) THEN FALSE
    ELSE IF i < Len(xs) /\ isKeyword(xs[i]) /\ ~isKeyword(xs[i + 1])
    THEN IF IsList(xs[i + 1])
            /\ \E j \in DOMAIN xs[i + 1].items : HitsMalformed(xs[i + 1].items[j])
         THEN TRUE
         ELSE HitsMalformedFrom(xs, i + 2)
    ELSE IF HitsMalformed(xs[i]) THEN TRUE
    ELSE HitsMalformedFrom(xs, i + 1)

\* the text parses and one of its top-level expressions hits a malformed form
MalformedDocument(content) ==
    With(parseAll(content), LAMBDA sExprs :
        /\ sExprs.ok
        /\ \E i \in DOMAIN sExprs.vals : HitsMalformed(sExprs.vals[i]))

BindingErrors ==
    { "Expected list of bindings for let/let-proof",
      "Expected tuple for binding",
      "Expected string for binding name" }

\* C7: when a document arrives of which a top-level expression hits a let
\* form with malformed bindings, the load ends in onError with the binding
\* error, no tree of the document is delivered, and the display stays as it
\* was.
C7_MalformedBindingFailsDocument ==
    [][ \A content \in Contents :
          (loads' = Append(loads, content) /\ MalformedDocument(content))
              => /\ Len(log') = Len(log) + 1
                 /\ log'[Len(log')].cb = "onError"
                 /\ log'[Len(log')].trees = <<>>
                 /\ log'[Len(log')].err.kind \in BindingErrors
                 /\ \A i \in DOMAIN log : log'[i] = log[i]
                 /\ UNCHANGED vizVars ]_vars

\* a document whose first expression is well formed and whose second has
\* malformed bindings failed, and the display still shows the document
\* loaded before it
C7_Witness ==
    /\ Len(loads) = 2
    /\ loads[2] = TextOf(<<Av, List(<<LetAtom, X, Av>>)>>)
    /\ MalformedDocument(loads[2])
    /\ Delivered(1)
    /\ log[2].cb = "onError"
    /\ log[1].trees # <<>>
    /\ Len(elems) = Len(log[1].trees)
    /\ \A i \in DOMAIN elems : elems[i].node = log[1].trees[i]

(***************************************************************************)
(* A session of loads and clicks on the boxes shown.                       *)
(***************************************************************************)
ShowText ==
    \E content \in VizContents :
        /\ Len(loads) < MaxRenders
        /\ TextArrived(content)

ClickBox == \E e \in DOMAIN elems : Click(e)

VizNext == ShowText \/ ClickBox

SpecViz == SessionInit /\ [][VizNext]_vars

\* the elements in the children container of element e
ElementsIn(e) == {c \in DOMAIN elems : elems[c].parent = e}

\* a step that is a click: nothing is loaded in it
ClickStep == loads' = loads

\* C8: the children of an element are materialised exactly once, at its
\* first expand: that click creates one element for each child of the node,
\* in the order of the children, each collapsed and with no elements of its
\* own, and nothing else; every other click, on this element or elsewhere,
\* leaves its child elements as they are and creates no element in its
\* container.  An element not yet expanded has no child elements.
C8_MaterialisedOnce ==
    [][ ClickStep =>
          \A e \in DOMAIN elems :
            /\ e \in DOMAIN elems'
            /\ elems'[e].node = elems[e].node
            /\ ~elems[e].rendered => /\ ~elems[e].isExpanded
                                     /\ elems[e].childElems = <<>>
                                     /\ ElementsIn(e) = {}
            /\ elems[e].rendered =>
                 /\ elems'[e].rendered
                 /\ elems'[e].childElems = elems[e].childElems
                 /\ {c \in DOMAIN elems' : elems'[c].parent = e} = ElementsIn(e)
            /\ (~elems[e].isExpanded /\ elems'[e].isExpanded /\ ~elems[e].rendered)
                 => elems'[e].rendered
            /\ (~elems[e].rendered /\ elems'[e].rendered) =>
                 With(heap[elems[e].node].children, LAMBDA children :
                     /\ elems'[e].isExpanded
                     /\ Len(elems') = Len(elems) + Len(children)
                     /\ elems'[e].childElems =
                            [i \in 1..Len(children) |-> Len(elems) + i]
                     /\ \A i \in 1..Len(children) :
                          With(elems'[Len(elems) + i], LAMBDA c :
                              /\ c.node = children[i]
                              /\ c.parent = e
                              /\ ~c.rendered
                              /\ ~c.isExpanded
                              /\ c.display = "none"
                              /\ c.childElems = <<>>)) ]_vars

\* an expanded element with the two child elements of its first expand, one
\* of which has itself been expanded and collapsed again
C8_Witness ==
    \E e \in DOMAIN elems :
        /\ elems[e].rendered
        /\ elems[e].isExpanded
        /\ Len(elems[e].childElems) = 2
        /\ ElementsIn(e) = Range(elems[e].childElems)
        /\ \E c \in ElementsIn(e) :
               elems[c].rendered /\ ~elems[c].isExpanded

\* C9: a click changes the element clicked and no other element of the same
\* node: its display, its rendered mark, whether it is expanded and its child
\* elements stay as they were.
C9_PerOccurrence ==
    [][ ClickStep =>
          \A e1, e2 \in DOMAIN elems :
            (/\ e1 # e2
             /\ elems[e1].node = elems[e2].node
             /\ elems'[e1] # elems[e1])
                => elems'[e2] = elems[e2] ]_vars

\* two elements of one node under one parent, one expanded with its child
\* element, the other never expanded
C9_Witness ==
    \E e1, e2 \in DOMAIN elems :
        /\ e1 # e2
        /\ elems[e1].node = elems[e2].node
        /\ elems[e1].parent = elems[e2].parent
        /\ elems[e1].rendered /\ elems[e1].isExpanded
        /\ elems[e1].childElems # <<>>
        /\ ~elems[e2].rendered
        /\ elems[e2].childElems = <<>>

\* C10: when trees are delivered, the elements are the root elements, one
\* for each tree in order, and each is collapsed, not rendered and without
\* child elements.
C10_OnlyRootsAfterRender ==
    [][ (Len(log') = Len(log) + 1 /\ log'[Len(log')].cb = "onTreeLoaded") =>
          With(log'[Len(log')].trees, LAMBDA roots :
              /\ Len(elems') = Len(roots)
              /\ rootElems' = [i \in 1..Len(roots) |-> i]
              /\ emptyMessage' = (Len(roots) = 0)
              /\ \A i \in 1..Len(roots) :
                   /\ elems'[i].node = roots[i]
                   /\ elems'[i].isRoot
                   /\ elems'[i].parent = 0
                   /\ elems'[i].display = "none"
                   /\ ~elems'[i].rendered
                   /\ ~elems'[i].isExpanded
                   /\ ~elems'[i].expanded
                   /\ elems'[i].childElems = <<>>) ]_vars

\* two trees are shown, the first with children, and nothing but the two
\* root elements exists
C10_Witness ==
    /\ log # <<>>
    /\ log[Len(log)].cb = "onTreeLoaded"
    /\ Len(log[Len(log)].trees) = 2
    /\ Len(elems) = 2
    /\ heap[elems[1].node].children # <<>>
    /\ \A e \in DOMAIN elems : ~elems[e].rendered /\ elems[e].display = "none"

\* element e with its children container shown or hidden and nothing else
\* changed
Toggled(e, shown) ==
    [elems EXCEPT ![e].isExpanded = shown,
                  ![e].display = IF shown THEN "block" ELSE "none",
                  ![e].expanded = shown]

\* C11: a click that collapses an element hides its children container and
\* changes nothing else: its child elements, its rendered mark and every
\* other element stay as they are; a click that expands an element already
\* rendered shows the container again and changes nothing else.
C11_CollapseOnlyHides ==
    [][ ClickStep =>
          \A e \in DOMAIN elems :
            /\ (elems[e].isExpanded /\ ~elems'[e].isExpanded)
                 => elems' = Toggled(e, FALSE)
            /\ (elems[e].rendered /\ ~elems[e].isExpanded /\ elems'[e].isExpanded)
                 => elems' = Toggled(e, TRUE) ]_vars

\* a collapsed element that keeps its child elements, one of them still
\* expanded with child elements of its own
C11_Witness ==
    \E e \in DOMAIN elems :
        /\ elems[e].rendered
        /\ ~elems[e].isExpanded
        /\ elems[e].display = "none"
        /\ \E i \in DOMAIN elems[e].childElems :
               /\ elems[elems[e].childElems[i]].isExpanded
               /\ elems[elems[e].childElems[i]].display = "block"
               /\ elems[elems[e].childElems[i]].childElems # <<>>

RECURSIVE Rendering(_)
RECURSIVE RenderingFrom(_, _)

\* an atom renders as itself, a list as "(" + the renderings of its
\* elements joined by single spaces + ")"
Rendering(e) ==
    IF IsAtom(e) THEN e.s
    ELSE <<"(">> \o RenderingFrom(e.items, 1) \o <<")">>

RenderingFrom(xs, i) ==
    IF i > Len(xs) THEN <<>>
    ELSE IF i = Len(xs) THEN Rendering(xs[i])
    ELSE Rendering(xs[i]) \o <<" ">> \o RenderingFrom(xs, i + 1)

\* first elements: atoms (bound in some states), lists, a binding form and
\* a malformed one
ProbeFirsts ==
    { X, Y, F, LetAtom, Atom(<<>>), List(<<>>), List(<<Av, X>>),
      List(<<List(<<F>>), List(<<>>), X>>),
      LetOf(<<Bind(Y, Av)>>, Y), List(<<LetAtom, X, Av>>) }

\* the elements after the first: no keywords among them
ProbeRests == { <<>>, <<X>>, <<Av, List(<<G, X>>)>>, <<X, Y, X>> }

Tree(name, kids) == [name |-> name, kids |-> kids]

Leaf(name) == Tree(name, <<>>)

RECURSIVE TreeAt(_, _)
\* node n of heap h written out
TreeAt(h, n) ==
    Tree(h[n].name, [i \in DOMAIN h[n].children |-> TreeAt(h, h[n].children[i])])

\* what an atom converts to in the current state, written out
Resolved(a) ==
    IF a.s \in DOMAIN leafMap THEN TreeAt(heap, leafMap[a.s]) ELSE Leaf(a.s)

\* the list converted in the current state, written out
Converted(xs) ==
    With(convert(List(xs), heap, leafMap), LAMBDA r :
        IF r.ok THEN TreeAt(r.heap, r.node) ELSE Leaf(<<"?">>))

Kj == Atom(<<":", "j">>)

\* C13: in the scan of the elements after the first, a keyword followed by
\* a non-keyword takes both and gives one child named by the keyword, whose
\* children are one new leaf for an atom value (also when the atom is a key
\* of leafMap) or the conversions of the elements of a list value; any other
\* element, a keyword that is last or followed by a keyword included, gives
\* one child by conversion; the children are in scan order.
C13_KeywordPairs ==
    \A v \in ProbeAtoms :
        /\ Converted(<<F, Kw, v>>) = Tree(F.s, <<Tree(Kw.s, <<Leaf(v.s)>>)>>)
        /\ With(convert(List(<<F, Kw, v>>), heap, leafMap), LAMBDA r :
               /\ r.heap[r.heap[r.node].children[1]].children = <<Len(heap) + 1>>
               /\ r.leafMap = leafMap)
        /\ Converted(<<F, Kw, List(<<v, Av>>)>>)
               = Tree(F.s, <<Tree(Kw.s, <<Resolved(v), Resolved(Av)>>)>>)
        /\ Converted(<<F, Kw, List(<<>>)>>) = Tree(F.s, <<Tree(Kw.s, <<>>)>>)
        /\ Converted(<<F, Kw, List(<<List(<<G, v>>)>>)>>)
               = Tree(F.s, <<Tree(Kw.s, <<Tree(G.s, <<Resolved(v)>>)>>)>>)
        /\ Converted(<<F, Kw>>) = Tree(F.s, <<Leaf(Kw.s)>>)
        /\ Converted(<<F, v, Kw>>) = Tree(F.s, <<Resolved(v), Leaf(Kw.s)>>)
        /\ Converted(<<F, Kw, Kj, v>>)
               = Tree(F.s, <<Leaf(Kw.s), Tree(Kj.s, <<Leaf(v.s)>>)>>)
        /\ Converted(<<F, Kw, Kj>>) = Tree(F.s, <<Leaf(Kw.s), Leaf(Kj.s)>>)
        /\ Converted(<<F, v, Kw, Y, Av>>)
               = Tree(F.s, <<Resolved(v), Tree(Kw.s, <<Leaf(Y.s)>>), Resolved(Av)>>)
        /\ Converted(<<F, Kw, v, Kj, List(<<Av, X>>)>>)
               = Tree(F.s, <<Tree(Kw.s, <<Leaf(v.s)>>),
                             Tree(Kj.s, <<Resolved(Av), Resolved(X)>>)>>)
        /\ Converted(<<F, Kw, v, Y>>)
               = Tree(F.s, <<Tree(Kw.s, <<Leaf(v.s)>>), Resolved(Y)>>)

\* (f :k x) was delivered while x was bound: the child :k holds a new leaf
\* x, not the node bound to x
C13_Witness ==
    /\ Len(loads) = 2
    /\ loads[2] = TextOf(<<List(<<F, Kw, X>>)>>)
    /\ Delivered(2)
    /\ X.s \in DOMAIN leafMap
    /\ heap[leafMap[X.s]].children # <<>>
    /\ TreeAt(heap, log[2].trees[1]) = Tree(F.s, <<Tree(Kw.s, <<Leaf(X.s)>>)>>)

\* the characters of atom a, a backslash before every double quote and
\* backslash
RECURSIVE Escaped(_, _)
Escaped(a, i) ==
    IF i > Len(a) THEN <<>>
    ELSE IF a[i] \in {"\"", "\\"} THEN <<"\\", a[i]>> \o Escaped(a, i + 1)
    ELSE <<a[i]>> \o Escaped(a, i + 1)

\* atom a can be written as it stands
Plain(a) ==
    /\ a # <<>>
    /\ a[1] \notin {"\"", "|", ";"}
    /\ \A i \in DOMAIN a : ~IsSpace(a[i]) /\ a[i] \notin {"(", ")"}

\* the canonical text of an atom: as it stands if it can be, else between
\* bars if it holds no bar, else as a quoted string
CanonicalAtom(a) ==
    IF Plain(a) THEN a
    ELSE IF \A i \in DOMAIN a : a[i] # "|" THEN <<"|">> \o a \o <<"|">>
    ELSE <<"\"">> \o Escaped(a, 1) \o <<"\"">>

RECURSIVE Canonical(_)
RECURSIVE CanonicalFrom(_, _)

\* the canonical text of an expression
Canonical(e) ==
    IF IsAtom(e) THEN CanonicalAtom(e.s)
    ELSE <<"(">> \o CanonicalFrom(e.items, 1) \o <<")">>

\* the canonical text of the expressions xs from the i-th on, separated by
\* single spaces
CanonicalFrom(xs, i) ==
    IF i > Len(xs) THEN <<>>
    ELSE IF i = Len(xs) THEN Canonical(xs[i])
    ELSE Canonical(xs[i]) \o <<" ">> \o CanonicalFrom(xs, i + 1)

\* C14: when parseAll has returned the expressions of a text, parseAll on
\* their canonical text returns the same expressions, atom for atom.
C14_RoundTrip ==
    (ParseAllEnded /\ ppc = "returned") =>
        With(parseAll(CanonicalFrom(results, 1)), LAMBDA again :
            /\ again.ok
            /\ again.vals = results)

\* a text was parsed into a list holding an atom that has to be written
\* between bars or as a quoted string
C14_Witness ==
    /\ ParseAllEnded /\ ppc = "returned" /\ ~caught
    /\ Len(results) = 1
    /\ IsList(results[1])
    /\ Len(results[1].items) = 1
    /\ IsAtom(results[1].items[1])
    /\ ~Plain(results[1].items[1].s)
    /\ parseAll(Canonical(results[1])).vals = results

\* a text was parsed into an atom holding a bar, written as a quoted string
C14_WitnessString ==
    /\ ParseAllEnded /\ ppc = "returned" /\ ~caught
    /\ Len(results) = 1
    /\ IsAtom(results[1])
    /\ \E i \in DOMAIN results[1].s : results[1].s[i] = "|"
    /\ ~Plain(results[1].s)

\* the failures the parser raises on malformed text
SyntaxErrors ==
    UnclosedKinds \cup {"Unexpected ')'", "Unexpected end of input",
                        "Unexpected end of input while parsing atom"}

\* C15: every error the parser has thrown, caught by parseAll or not, names
\* its condition and carries the offset in the input at which it was
\* detected.
C15_ErrorsCarryOffset ==
    (perr # NoError /\ perr.kind \in SyntaxErrors) =>
        /\ perr.position # NoPosition
        /\ perr.position \in 0..Len(input)

\* parse() raised on an unclosed string: the error carries no offset
C15_UnclosedWithoutOffset ==
    /\ ParseEnded
    /\ ppc = "raised"
    /\ perr.kind = "Unclosed string literal"
    /\ perr.position = NoPosition

(***************************************************************************)
(* A session of loads from files and from URLs, some of which fail before  *)
(* any text is there.                                                      *)
(***************************************************************************)
\* The texts loaded: well formed, empty, failing in the parser, failing in
\* the converter, tolerated by parseAll.
LoadContents ==
    { TextOf(<<Av>>), TextOf(SharingDoc), <<>>, <<")">>,
      TextOf(<<List(<<LetAtom, X, Av>>)>>), <<"(", "f", " ", "x">> }

FileLoaded ==
    \E content \in LoadContents :
        /\ Len(attempts) < MaxLoads
        /\ TextArrived(content)

FileFailed == Len(attempts) < MaxLoads /\ FileReadFailed

URLLoaded ==
    \E content \in LoadContents :
        /\ Len(attempts) < MaxLoads
        /\ ResponseTextArrived(content)

URLFetchFailed ==
    \E fetchTypeError \in BOOLEAN :
        /\ Len(attempts) < MaxLoads
        /\ FetchFailed(fetchTypeError)

URLNotOk == Len(attempts) < MaxLoads /\ ResponseNotOk

LoadsNext == FileLoaded \/ FileFailed \/ URLLoaded \/ URLFetchFailed \/ URLNotOk

SpecLoads == SessionInit /\ [][LoadsNext]_vars

\* the condition an error is reported as: what its message starts with
Condition(err) == err.kind

\* load i failed after its text had been obtained
FailedOnText(i) == attempts[i].outcome = "text" /\ log[i].cb = "onError"

\* load i failed to obtain its text
FailedToObtain(i) == attempts[i].outcome # "text"

\* C16: a load that fails to obtain its text and a load that fails in
\* parsing or converting the text it obtained are never reported as the same
\* condition.
C16_ObtainFailureDistinct ==
    \A i, j \in DOMAIN attempts :
        (FailedToObtain(i) /\ FailedOnText(j))
            => Condition(log[i].err) # Condition(log[j].err)

\* a response that was not ok and a response whose text ")" does not parse
\* are both reported as "Failed to load from URL"
C16_ParseFailureAsLoadFailure ==
    /\ Len(attempts) = 2
    /\ attempts[1] = Attempt("url", "HTTP error")
    /\ attempts[2] = Attempt("url", "text")
    /\ loads = << <<")">> >>
    /\ log[1].err.kind = "Failed to load from URL"
    /\ log[2].err.kind = "Failed to load from URL"
    /\ log[2].err.cause.kind = "Unexpected ')'"

\* C16 for loads from files: a file that could not be read is reported as
\* 'Failed to read file', a failure on its text as the parser's or the
\* converter's own error.
C16_FileFailuresDistinct ==
    \A i, j \in DOMAIN attempts :
        (/\ attempts[i].source = "file" /\ FailedToObtain(i)
         /\ attempts[j].source = "file" /\ FailedOnText(j))
            => Condition(log[i].err) # Condition(log[j].err)

(***************************************************************************)
(* A parser object on a text that opens a quoted string.                   *)
(***************************************************************************)
\* The characters after the opening double quote.
StringAlphabet == {"\"", "\\", "n", "t", "r", "a", "|"}

StringTexts ==
    UNION {{<<"\"">> \o body : body \in [1..n -> StringAlphabet]} : n \in 0..MaxBody}

StringsInit == Idle /\ \E text \in StringTexts : SExprParser(text)

SpecStrings == StringsInit /\ [][ParserNext]_vars

\* what a backslash followed by c contributes
EscapeOf(c) ==
    IF c = "n" THEN "\n"
    ELSE IF c = "t" THEN "\t"
    ELSE IF c = "r" THEN "\r"
    ELSE c

RECURSIVE StringFrom(_, _, _)
\* the quoted string whose characters after the opening quote start at s[i],
\* with `content` read so far: whether it is closed, its content, and the
\* position after the closing quote
StringFrom(s, i, content) ==
    IF i > Len(s)
    THEN [closed |-> FALSE, content |-> <<>>, end |-> Len(s)]
    ELSE IF s[i] = "\\"
    THEN IF i + 1 > Len(s)
         THEN [closed |-> FALSE, content |-> <<>>, end |-> Len(s)]
         ELSE StringFrom(s, i + 2, Append(content, EscapeOf(s[i + 1])))
    ELSE IF s[i] = "\""
    THEN [closed |-> TRUE, content |-> content, end |-> i]
    ELSE StringFrom(s, i + 1, Append(content, s[i]))

\* C17: in a quoted string a backslash followed by n, t, r, backslash or
\* double quote contributes newline, tab, carriage return, backslash or
\* double quote, a backslash followed by another character that character,
\* an unescaped double quote ends the string, and the atom is the unescaped
\* content; when the text ends before the closing quote, also right after a
\* backslash, the string fails as unclosed.
C17_StringEscapes ==
    (input # <<>> /\ input[1] = "\"") =>
        With(StringFrom(input, 2, <<>>), LAMBDA str :
            /\ parseExpr(input, 0) =
                   IF str.closed THEN Ok(Atom(str.content), str.end)
                   ELSE Throw("Unclosed string literal", NoPosition, Len(input))
            /\ (ParseAllEnded /\ str.closed) =>
                   /\ Len(results) >= 1
                   /\ results[1] = Atom(str.content)
            /\ (ParseAllEnded /\ ~str.closed) =>
                   /\ caught
                   /\ results = <<>>
                   /\ perr.kind = "Unclosed string literal"
            /\ (ParseEnded /\ ~str.closed) =>
                   /\ ppc = "raised"
                   /\ perr.kind = "Unclosed string literal"
            /\ (ParseEnded /\ str.closed /\ ppc = "returned") =>
                   result = Atom(str.content))

\* "\n" was parsed into the atom that is one newline
C17_Witness ==
    /\ ParseEnded
    /\ ppc = "returned"
    /\ input = <<"\"", "\\", "n", "\"">>
    /\ result = Atom(<<"\n">>)

\* a string that ends right after a backslash was found unclosed
C17_WitnessUnclosed ==
    /\ ParseEnded
    /\ ppc = "raised"
    /\ input = <<"\"", "a", "\\">>
    /\ perr.kind = "Unclosed string literal"

\* the indexes of the bars after the opening one
LaterBars(s) == {k \in 2..Len(s) : s[k] = "|"}

\* the first of them
NextBar(s) == CHOOSE k \in LaterBars(s) : \A j \in LaterBars(s) : k <= j

\* characters that mean something outside the bars
Special == {"\\", "\"", "(", ")", ";", " ", "\n"}

\* C18: the atom of a quoted atom is the text between the opening bar and
\* the next bar, character for character, whatever the characters are; when
\* no bar follows the opening one, the quoted atom fails as unclosed.
C18_QuotedAtomVerbatim ==
    (input # <<>> /\ input[1] = "|") =>
        /\ parseExpr(input, 0) =
               IF LaterBars(input) # {}
               THEN Ok(Atom(SubSeq(input, 2, NextBar(input) - 1)), NextBar(input))
               ELSE Throw("Unclosed quoted atom: missing closing |", NoPosition,
                          Len(input))
        /\ (ParseAllEnded /\ LaterBars(input) # {}) =>
               /\ Len(results) >= 1
               /\ results[1] = Atom(SubSeq(input, 2, NextBar(input) - 1))
        /\ (ParseAllEnded /\ LaterBars(input) = {}) =>
               /\ caught
               /\ results = <<>>
               /\ perr.kind = "Unclosed quoted atom: missing closing |"
        /\ (ParseEnded /\ LaterBars(input) = {}) =>
               /\ ppc = "raised"
               /\ perr.kind = "Unclosed quoted atom: missing closing |"
        /\ (ParseEnded /\ ppc = "returned") =>
               result = Atom(SubSeq(input, 2, NextBar(input) - 1))

\* a quoted atom of two characters that mean something outside the bars
C18_Witness ==
    /\ ParseEnded
    /\ ppc = "returned"
    /\ Len(input) = 4
    /\ input[1] = "|"
    /\ input[2] \in Special /\ input[3] \in Special /\ input[2] # input[3]
    /\ result = Atom(<<input[2], input[3]>>)

(***************************************************************************)
(* A parser object on a text of atoms and of what ends them.               *)
(***************************************************************************)
AtomAlphabet == {"a", " ", "\t", "\n", "\r", "(", ")", ";", "\"", "|"}

AtomTexts == UNION {[1..n -> AtomAlphabet] : n \in 0..MaxAtomText}

AtomsInit == Idle /\ \E text \in AtomTexts : SExprParser(text)

SpecAtoms == AtomsInit /\ [][ParserNext]_vars

\* the characters that end an unquoted atom
Delimiters == {" ", "\t", "\n", "\r", "(", ")"}

\* an unquoted atom starts at index i of s: no delimiter, and none of the
\* characters that start a quoted string, a quoted atom or a comment
StartsAtom(s, i) == s[i] \notin Delimiters \cup {"\"", "|", ";"}

\* the last index of the longest run without delimiter that starts at i
RunEnd(s, i) ==
    IF \E k \in i..Len(s) : s[k] \in Delimiters
    THEN (CHOOSE k \in i..Len(s) :
              /\ s[k] \in Delimiters
              /\ \A j \in i..(k - 1) : s[j] \notin Delimiters) - 1
    ELSE Len(s)

\* C19: an unquoted atom is the longest run of characters from the current
\* position on that holds no space, tab, newline, carriage return, "(" or
\* ")"; a ';', a double quote or a bar after its first character belongs to
\* the atom.
C19_UnquotedAtomMaximalRun ==
    /\ \A i \in DOMAIN input :
         StartsAtom(input, i) =>
             parseAtom(input, i - 1)
                 = Ok(Atom(SubSeq(input, i, RunEnd(input, i))), RunEnd(input, i))
    /\ (input # <<>> /\ StartsAtom(input, 1)) =>
         /\ (ParseAllEnded /\ ppc = "returned") =>
                /\ Len(results) >= 1
                /\ results[1] = Atom(SubSeq(input, 1, RunEnd(input, 1)))
         /\ (ParseEnded /\ ppc = "returned") =>
                result = Atom(SubSeq(input, 1, RunEnd(input, 1)))

\* an atom of three characters, the second a ';' and the third a double
\* quote or a bar
C19_Witness ==
    /\ ParseEnded
    /\ ppc = "returned"
    /\ Len(input) = 3
    /\ input[1] = "a"
    /\ input[2] = ";"
    /\ input[3] \in {"\"", "|"}
    /\ result = Atom(input)

\* two atoms with a tab or a carriage return between them
C19_WitnessDelimiters ==
    /\ ParseAllEnded
    /\ ppc = "returned"
    /\ Len(input) = 3
    /\ input[2] \in {"\t", "\r"}
    /\ results = <<Atom(<<"a">>), Atom(<<"a">>)>>

(***************************************************************************)
(* A parser object on a text with comments.                                *)
(***************************************************************************)
\* The pieces of such a text: an atom, parentheses, a comment with the end
\* of its line and one without, a double quote, a bar.
Pieces ==
    { <<"a">>, <<"(", "a", " ">>, <<"(">>, <<")">>, <<";", "a", "\n">>,
      <<";", "(">>, <<"\"">>, <<"|">> }

RECURSIVE Flatten(_, _)
Flatten(ps, i) == IF i > Len(ps) THEN <<>> ELSE ps[i] \o Flatten(ps, i + 1)

CommentTexts ==
    {Flatten(ps, 1) : ps \in UNION {[1..n -> Pieces] : n \in 0..MaxPieces}}

CommentsInit == Idle /\ \E text \in CommentTexts : SExprParser(text)

SpecComments == CommentsInit /\ [][ParserNext]_vars

RECURSIVE Blanked(_, _, _)
\* s from index i on with every comment replaced by spaces, its end of line
\* kept; `within` tells what the character at i is within: "nothing" (white
\* space may appear), "atom", "string", "escape", "bars" or "comment"
Blanked(s, i, within) ==
    IF i > Len(s) THEN <<>>
    ELSE IF within = "comment"
    THEN IF s[i] = "\n" THEN <<"\n">> \o Blanked(s, i + 1, "nothing")
         ELSE <<" ">> \o Blanked(s, i + 1, "comment")
    ELSE IF within = "string"
    THEN <<s[i]>> \o Blanked(s, i + 1, IF s[i] = "\\" THEN "escape"
                                        ELSE IF s[i] = "\"" THEN "nothing"
                                        ELSE "string")
    ELSE IF within = "escape" THEN <<s[i]>> \o Blanked(s, i + 1, "string")
    ELSE IF within = "bars"
    THEN <<s[i]>> \o Blanked(s, i + 1, IF s[i] = "|" THEN "nothing" ELSE "bars")
    ELSE IF within = "atom"
    THEN <<s[i]>> \o Blanked(s, i + 1, IF s[i] \in Delimiters THEN "nothing"
                                        ELSE "atom")
    ELSE IF s[i] = ";" THEN <<" ">> \o Blanked(s, i + 1, "comment")
    ELSE <<s[i]>> \o Blanked(s, i + 1, IF s[i] \in Delimiters THEN "nothing"
                                        ELSE IF s[i] = "\"" THEN "string"
                                        ELSE IF s[i] = "|" THEN "bars"
                                        ELSE "atom")

\* C20: where white space may appear, a ';' discards the characters up to
\* the end of the line: parseAll does on a text what it does on the text
\* with every such comment replaced by spaces, so no character of a comment
\* is in an atom; a ';' within an atom, a quoted string or a quoted atom
\* starts no comment.
C20_CommentsAreWhitespace ==
    /\ parseAll(input) = parseAll(Blanked(input, 1, "nothing"))
    /\ ParseAllEnded =>
         With(parseAll(Blanked(input, 1, "nothing")), LAMBDA blank :
             /\ (ppc = "returned") = blank.ok
             /\ ppc = "returned" => results = blank.vals
             /\ ppc = "raised" => perr = blank.err)

\* (a ;a\na) was parsed into the list of two atoms a
C20_Witness ==
    /\ ParseAllEnded
    /\ ppc = "returned"
    /\ ~caught
    /\ input = <<"(", "a", " ", ";", "a", "\n", "a", ")">>
    /\ results = <<List(<<Atom(<<"a">>), Atom(<<"a">>)>>)>>


(***************************************************************************)
(* Lists and their parentheses                                             *)
(***************************************************************************)
RECURSIVE Scan(_, _, _, _)
\* What the text s holds from index i on, read character by character up to
\* the end of its first expression: `within` is what the character at i is
\* within (as for Blanked), depth the number of lists open there.  The
\* outcome is "complete" (the expression ends after index `at`), "paren" (a
\* ")" at index `at` with no list open), "openlist", "string", "bars" (the
\* text ends within one) or "empty" (the text holds no expression).
Scan(s, i, within, depth) ==
    IF i > Len(s)
    THEN [kind |-> IF within \in {"string", "escape"} THEN "string"
                   ELSE IF within = "bars" THEN "bars"
                   ELSE IF depth > 0 THEN "openlist"
                   ELSE IF within = "atom" THEN "complete"
                   ELSE "empty",
          at |-> Len(s)]
    ELSE IF within = "comment"
    THEN Scan(s, i + 1, IF s[i] = "\n" THEN "nothing" ELSE "comment", depth)
    ELSE IF within = "escape" THEN Scan(s, i + 1, "string", depth)
    ELSE IF within = "string"
    THEN IF s[i] = "\\" THEN Scan(s, i + 1, "escape", depth)
         ELSE IF s[i] # "\"" THEN Scan(s, i + 1, "string", depth)
         ELSE IF depth = 0 THEN [kind |-> "complete", at |-> i]
         ELSE Scan(s, i + 1, "nothing", depth)
    ELSE IF within = "bars"
    THEN IF s[i] # "|" THEN Scan(s, i + 1, "bars", depth)
         ELSE IF depth = 0 THEN [kind |-> "complete", at |-> i]
         ELSE Scan(s, i + 1, "nothing", depth)
    ELSE IF within = "atom" /\ s[i] \notin Delimiters
    THEN Scan(s, i + 1, "atom", depth)
    ELSE IF within = "atom" /\ depth = 0
    THEN [kind |-> "complete", at |-> i - 1]
    \* between expressions, or at the delimiter that ended an atom in a list
    ELSE IF IsSpace(s[i]) THEN Scan(s, i + 1, "nothing", depth)
    ELSE IF s[i] = ";" /\ within = "nothing" THEN Scan(s, i + 1, "comment", depth)
    ELSE IF s[i] = "(" THEN Scan(s, i + 1, "nothing", depth + 1)
    ELSE IF s[i] = ")"
    THEN IF depth = 0 THEN [kind |-> "paren", at |-> i]
         ELSE IF depth = 1 THEN [kind |-> "complete", at |-> i]
         ELSE Scan(s, i + 1, "nothing", depth - 1)
    ELSE IF s[i] = "\"" THEN Scan(s, i + 1, "string", depth)
    ELSE IF s[i] = "|" THEN Scan(s, i + 1, "bars", depth)
    ELSE Scan(s, i + 1, "atom", depth)

\* C21: parse fails with the unclosed-list error and returns nothing when the
\* input ends while a list is open and no string or quoted atom is, and fails
\* with the unexpected-")" error, carrying the offset of the ")", when a ")"
\* stands where the top-level expression is expected; a ")" within an open
\* list closes that list and raises neither error, and "()" is the empty
\* list.
C21_ListErrors ==
    /\ With(Scan(input, 1, "nothing", 0), LAMBDA o :
         /\ ParseEnded =>
              /\ o.kind = "openlist" <=>
                     /\ ppc = "raised"
                     /\ perr = Error("Unclosed list: missing closing parenthesis",
                                     NoPosition)
              /\ o.kind = "paren" <=>
                     /\ ppc = "raised"
                     /\ perr = Error("Unexpected ')'", o.at - 1)
              /\ o.kind \in {"openlist", "paren"} => result = NoExpr
         /\ o.kind = "complete" =>
              /\ parseExpr(input, 0).ok
              /\ parseExpr(input, 0).pos = o.at
         /\ o.kind = "openlist" =>
              parseExpr(input, 0) =
                  Throw("Unclosed list: missing closing parenthesis", NoPosition,
                        Len(input))
         \* a list that holds nothing but whitespace and comments
         /\ (/\ o.kind = "complete"
             /\ input[1] = "("
             /\ OnlyBlank(SubSeq(input, 2, o.at - 1), 1, FALSE)) =>
              parseExpr(input, 0) = Ok(List(<<>>), o.at))
    /\ (ParseEnded /\ input = <<"(", ")">>) =>
           ppc = "returned" /\ result = List(<<>>)

\* the input ended within the inner of two lists, the outer one holding a
\* closed list before it
C21_Witness ==
    /\ ParseEnded
    /\ input = <<"(", "(", ")", "(">>
    /\ ppc = "raised"
    /\ perr.kind = "Unclosed list: missing closing parenthesis"
    /\ result = NoExpr

\* a ")" where the expression is expected, after a comment
C21_WitnessParen ==
    /\ ParseEnded
    /\ input = <<";", "\n", ")", "a">>
    /\ ppc = "raised"
    /\ perr = Error("Unexpected ')'", 2)

\* "()" was parsed into the empty list
C21_WitnessEmptyList ==
    /\ ParseEnded
    /\ input = <<"(", ")">>
    /\ ppc = "returned"
    /\ result = List(<<>>)


(***************************************************************************)
(* The roots of a document and their display                               *)
(***************************************************************************)
RECURSIVE RootName(_)
\* the name of the node a top-level expression is converted to
RootName(e) ==
    IF IsAtom(e) THEN e.s
    ELSE IF Len(e.items) = 0 THEN <<"(", ")">>
    ELSE IF /\ Len(e.items) = 3
            /\ e.items[1] \in {LetAtom, LetProofAtom}
            /\ IsList(e.items[2])
    THEN RootName(e.items[3])
    ELSE Rendering(e.items[1])

\* the loads whose trees were delivered
DeliveredLoads == {i \in DOMAIN log : Delivered(i)}

\* the last of them
LastDelivered == CHOOSE i \in DeliveredLoads : \A j \in DeliveredLoads : j <= i

\* C22: a load that succeeds delivers one root node per top-level expression
\* of its text, in the order of the expressions, and the display holds one
\* root element of its own per root, in that order, each in its own section;
\* a text with no top-level expression delivers no root and the display
\* holds the empty-document message and no tree.
C22_RootPerExpression ==
    /\ \A i \in DeliveredLoads :
         With(Attempts(loads[i], 0, <<>>).done, LAMBDA exprs :
             /\ Len(log[i].trees) = Len(exprs)
             /\ \A k \in DOMAIN exprs :
                    /\ log[i].trees[k] \in DOMAIN heap
                    /\ heap[log[i].trees[k]].name = RootName(exprs[k]))
    /\ DeliveredLoads = {} => rootElems = <<>> /\ elems = <<>> /\ ~emptyMessage
    /\ DeliveredLoads # {} =>
         With(log[LastDelivered].trees, LAMBDA trees :
             /\ Len(rootElems) = Len(trees)
             /\ \A k \in DOMAIN trees :
                    /\ rootElems[k] \in DOMAIN elems
                    /\ elems[rootElems[k]].node = trees[k]
                    /\ elems[rootElems[k]].isRoot
                    /\ elems[rootElems[k]].parent = 0
             /\ \A k, l \in DOMAIN rootElems : rootElems[k] = rootElems[l] => k = l
             /\ {e \in DOMAIN elems : elems[e].isRoot} = Range(rootElems)
             /\ emptyMessage = (Len(trees) = 0)
             /\ Len(trees) = 0 => elems = <<>>)

\* two expressions of different names were loaded after another document:
\* two roots in the order of the text
C22_Witness ==
    /\ Len(log) = 2
    /\ Delivered(1) /\ Len(log[1].trees) = 1
    /\ Delivered(2)
    /\ loads[2] = TextOf(<<List(<<F, List(<<G, Av>>), Av>>), Av>>)
    /\ Len(rootElems) = 2
    /\ heap[elems[rootElems[1]].node].name = <<"f">>
    /\ heap[elems[rootElems[2]].node].name = <<"a">>

\* a text without expression was loaded after a document: the message
C22_WitnessEmpty ==
    /\ Len(log) = 2
    /\ Delivered(1) /\ Len(log[1].trees) = 1
    /\ Delivered(2)
    /\ log[2].trees = <<>>
    /\ emptyMessage
    /\ elems = <<>>


(***************************************************************************)
(* The order of the bindings of a binding form                             *)
(***************************************************************************)
\* names bound and atoms used as values and bodies in the forms
\*   (let ((n1 v1) (n2 v2)) body)
\* converted against every heap and leafMap a session reaches
ProbeNames == {X, Y}

\* what atom a is looked up to in map m when the heap holds `size` nodes: the
\* mapped node, or a new leaf
Lookup(m, a, size) ==
    IF a.s \in DOMAIN m
    THEN [id |-> m[a.s], new |-> 0]
    ELSE [id |-> size + 1, new |-> 1]

\* C23: the bindings of a binding form are processed in list order and the
\* body last.  The value of a binding is looked up in the environment that
\* holds the earlier bindings of the list and neither its own nor a later
\* one: naming an earlier binding it is that binding's wrapper, naming its
\* own or a later name it is what the environment held before the form (or a
\* new leaf).  The result is the node of the body converted after the last
\* binding is installed, and no node is created for the form itself.
C23_BindingsInOrder ==
    \A n1, n2 \in ProbeNames : \A v1, v2 \in ProbeAtoms :
    \A body \in ProbeAtoms \cup {List(<<F, n1, n2>>)} :
        With(convert(LetOf(<<Bind(n1, v1), Bind(n2, v2)>>, body), heap, leafMap),
             LAMBDA r :
        With(Lookup(leafMap, v1, Len(heap)), LAMBDA c1 :
        With(Len(heap) + c1.new + 1, LAMBDA w1 :
        With(IF v2 = n1 THEN [id |-> w1, new |-> 0]
             ELSE Lookup(leafMap, v2, w1), LAMBDA c2 :
        With(w1 + c2.new + 1, LAMBDA w2 :
        With(MapSet(MapSet(leafMap, n1.s, w1), n2.s, w2), LAMBDA env :
            /\ r.ok
            /\ SubSeq(r.heap, 1, Len(heap)) = heap
            \* the first binding: its value sees the old environment only
            /\ c1.new = 1 => r.heap[c1.id] = Node(v1.s, <<>>)
            /\ r.heap[w1] = Node(n1.s, <<c1.id>>)
            \* the second: its value sees the first binding and not itself
            /\ c2.new = 1 => r.heap[c2.id] = Node(v2.s, <<>>)
            /\ r.heap[w2] = Node(n2.s, <<c2.id>>)
            /\ r.leafMap = env
            \* the body sees both
            /\ IF IsAtom(body)
               THEN With(Lookup(env, body, w2), LAMBDA b :
                        /\ r.node = b.id
                        /\ b.new = 1 => r.heap[b.id] = Node(body.s, <<>>)
                        /\ Len(r.heap) = w2 + b.new)
               ELSE /\ r.node = w2 + 1
                    /\ r.heap[r.node] = Node(F.s, <<env[n1.s], env[n2.s]>>)
                    /\ Len(r.heap) = w2 + 1))))))

\* (let ((x a) (y x)) (f x y)) was loaded: the value of y is the wrapper of x
C23_Witness ==
    /\ Len(log) >= 1
    /\ loads[1] = TextOf(<<LetOf(<<Bind(X, Av), Bind(Y, X)>>, List(<<F, X, Y>>))>>)
    /\ Delivered(1)
    /\ With(heap[log[1].trees[1]], LAMBDA f :
           /\ f.name = <<"f">>
           /\ Len(f.children) = 2
           /\ heap[f.children[1]] = Node(<<"x">>, <<1>>)
           /\ heap[f.children[2]] = Node(<<"y">>, <<f.children[1]>>)
           /\ Len(heap) = 4)

\* (let ((y x) (x a)) y) was loaded: the value of y is a leaf x, not the
\* wrapper of the later binding
C23_WitnessLater ==
    /\ Len(log) >= 1
    /\ loads[1] = TextOf(<<LetOf(<<Bind(Y, X), Bind(X, Av)>>, Y)>>)
    /\ Delivered(1)
    /\ With(heap[log[1].trees[1]], LAMBDA y :
           /\ y.name = <<"y">>
           /\ heap[y.children[1]] = Node(<<"x">>, <<>>)
           /\ y.children[1] # leafMap[<<"x">>])


(***************************************************************************)
(* Binding a name again                                                    *)
(***************************************************************************)
\* the trees delivered so far are in heap h what they are in the heap now
TreesKept(h) ==
    \A i \in DOMAIN log : \A k \in DOMAIN log[i].trees :
        TreeAt(h, log[i].trees[k]) = TreeAt(heap, log[i].trees[k])

\* what a load leaves of the nodes and bindings there were before it
LoadKeepsNodes ==
    \* every node there was is what it was
    /\ Len(heap') >= Len(heap)
    /\ SubSeq(heap', 1, Len(heap)) = heap
    /\ TreesKept(heap')
    \* a name bound again is mapped to a node created in this load, which
    \* every lookup made afterwards returns; the old wrapper is as it was
    /\ \A n \in DOMAIN leafMap :
         /\ n \in DOMAIN leafMap'
         /\ leafMap'[n] # leafMap[n] =>
              /\ leafMap'[n] > Len(heap)
              /\ heap'[leafMap'[n]].name = n
              /\ convert(Atom(n), heap', leafMap') = Done(leafMap'[n], heap', leafMap')
              /\ heap'[leafMap[n]] = heap[leafMap[n]]

\* x bound twice within one list, (f (let ((x v1)) x) (let ((x v2)) x) x), in
\* every state reached: the first child is the first wrapper, as it was made,
\* the second and the third are the second wrapper
RebindingWithinList ==
    \A v1, v2 \in ProbeAtoms :
        With(convert(List(<<F, LetOf(<<Bind(X, v1)>>, X), LetOf(<<Bind(X, v2)>>, X), X>>),
                     heap, leafMap), LAMBDA r :
        With(Lookup(leafMap, v1, Len(heap)), LAMBDA c1 :
        With(Len(heap) + c1.new + 1, LAMBDA w1 :
            /\ r.ok
            /\ SubSeq(r.heap, 1, Len(heap)) = heap
            /\ Len(r.heap[r.node].children) = 3
            /\ With(r.heap[r.node].children, LAMBDA kids :
                   /\ kids[1] = w1
                   /\ r.heap[w1] = Node(X.s, <<c1.id>>)
                   /\ kids[2] # w1
                   /\ kids[2] = r.leafMap[X.s]
                   /\ kids[3] = kids[2]
                   /\ r.heap[kids[2]].name = X.s
                   /\ r.heap[kids[2]].children
                          = <<IF v2 = X THEN w1
                              ELSE Lookup(leafMap, v2, w1).id>>))))

\* C24: binding a bound name again maps the name to a new wrapper, which
\* every lookup of the name made afterwards returns, and the trees built
\* before still hold the old wrapper with its name and children: no node is
\* modified after it was created.
C24_RebindingKeepsOldNodes == [][LoadKeepsNodes]_vars /\ []RebindingWithinList

\* x was bound by the first load and bound again by the second: the first
\* tree is the old wrapper, as it was, and x is mapped to another node
C24_Witness ==
    /\ Len(log) = 2
    /\ Delivered(1) /\ Delivered(2)
    /\ loads[1] = TextOf(<<LetOf(<<Bind(X, Av)>>, X)>>)
    /\ log[1].trees = <<2>>
    /\ heap[2] = Node(<<"x">>, <<1>>)
    /\ leafMap[<<"x">>] > 2
    /\ log[2].trees = <<leafMap[<<"x">>]>>


(***************************************************************************)
(* What a conversion writes                                                *)
(***************************************************************************)
RECURSIVE ReachesBinding(_)
RECURSIVE ReachesBindingFrom(_, _)

\* converting e reaches a binding form: e is one, or one is reached in a
\* child or in an element of the list that follows a keyword (the first
\* element of a list and an atom after a keyword are not converted)
ReachesBinding(e) ==
    IF ~IsList(e) THEN FALSE
    ELSE IF Len(e.items) = 0 THEN FALSE
    ELSE IF IsLetForm(e) THEN TRUE
    ELSE ReachesBindingFrom(e.items, 2)

ReachesBindingFrom(xs, i) ==
    IF i > Len(xs) THEN FALSE
    ELSE IF i < Len(xs) /\ isKeyword(xs[i]) /\ ~isKeyword(xs[i + 1])
    THEN IF IsList(xs[i + 1])
            /\ \E j \in DOMAIN xs[i + 1].items : ReachesBinding(xs[i + 1].items[j])
         THEN TRUE
         ELSE ReachesBindingFrom(xs, i + 2)
    ELSE IF ReachesBinding(xs[i]) THEN TRUE
    ELSE ReachesBindingFrom(xs, i + 1)

RECURSIVE BoundNames(_)
\* the names of the bindings anywhere in e
BoundNames(e) ==
    IF ~IsList(e) THEN {}
    ELSE UNION {BoundNames(e.items[i]) : i \in DOMAIN e.items}
             \cup IF IsLetForm(e) /\ IsList(e.items[2])
                  THEN {b.items[1].s : b \in {c \in Range(e.items[2].items) :
                                                  ~BadEntry(c)}}
                  ELSE {}

\* the top-level expressions of the documents
TopExprs == UNION {Range(doc) : doc \in WellFormedDocs \cup MalformedBindingDocs}

\* what converting e in the current state leaves of the heap and of leafMap
ConvertWritesBindingsOnly(e) ==
    With(convert(e, heap, leafMap), LAMBDA r :
        /\ ~ReachesBinding(e) => r.ok /\ r.leafMap = leafMap
        /\ SubSeq(r.heap, 1, Len(heap)) = heap
        /\ DOMAIN leafMap \subseteq DOMAIN r.leafMap
        /\ \A n \in DOMAIN r.leafMap :
             (n \notin DOMAIN leafMap \/ r.leafMap[n] # leafMap[n]) =>
                 /\ n \in BoundNames(e)
                 /\ r.leafMap[n] > Len(heap)
                 /\ r.heap[r.leafMap[n]].name = n)

\* a document none of whose expressions reaches a binding form arrives
LoadWithoutBinding ==
    \A content \in Contents :
        (/\ loads' = Append(loads, content)
         /\ parseAll(content).ok
         /\ \A e \in Range(parseAll(content).vals) : ~ReachesBinding(e))
            => /\ leafMap' = leafMap
               /\ log'[Len(log')].cb = "onTreeLoaded"

\* C25: the only thing convert writes besides the nodes it creates is the
\* bindings of the binding forms it reaches: converting an expression in
\* which conversion reaches no binding form leaves leafMap as it was, and in
\* any conversion an entry of leafMap changes only to the new wrapper of a
\* name bound in the expression.  (The expression converted is a value here;
\* convert has no assignment to it or to an element of it.)
C25_ConvertFrame ==
    /\ [](\A e \in TopExprs : ConvertWritesBindingsOnly(e))
    /\ [][LoadWithoutBinding]_vars

\* (f x x) was loaded with x bound: leafMap still holds the one binding of
\* the first load
C25_Witness ==
    /\ Len(log) = 2
    /\ loads[1] = TextOf(<<LetOf(<<Bind(X, Av)>>, X)>>)
    /\ loads[2] = TextOf(<<List(<<F, X, X>>)>>)
    /\ Delivered(1) /\ Delivered(2)
    /\ DOMAIN leafMap = {<<"x">>}
    /\ leafMap[<<"x">>] = log[1].trees[1]
    /\ heap[log[2].trees[1]].children = <<leafMap[<<"x">>], leafMap[<<"x">>]>>

\* a list with a binding form after a keyword and one with a binding form
\* as its first element were loaded: nothing was bound
C25_WitnessNotReached ==
    /\ Len(log) = 2
    /\ loads[1] = TextOf(<<List(<<F, Kw, LetOf(<<Bind(X, Av)>>, X)>>)>>)
    /\ loads[2] = TextOf(<<List(<<LetOf(<<Bind(X, Av)>>, X), Av>>)>>)
    /\ Delivered(1) /\ Delivered(2)
    /\ leafMap = <<>>


(***************************************************************************)
(* Loads in flight.  loadFile and loadURL return to the event loop at      *)
(* their await; the text of a load arrives in a later turn, in which       *)
(* parseContent runs from its first to its last statement (nothing in it   *)
(* awaits); the awaiting loadFile / loadURL runs on, and calls main's      *)
(* callback, in the microtasks that follow.  An event handler (a click on  *)
(* a load button, reader.onload) starts only when no microtask is left;    *)
(* the continuation of loadFromURL after `await response.text()` is a      *)
(* microtask itself and may run while another load's is still queued.      *)
(***************************************************************************)
\* Loads started in one session.
MaxRequests == 2

\* The documents loaded while others are in flight: two that bind x to
\* different values, one that uses x, one without expression, and a text
\* that does not parse.
AsyncContents ==
    { TextOf(<<LetOf(<<Bind(X, Av)>>, X)>>),
      TextOf(<<LetOf(<<Bind(X, Y)>>, List(<<F, X>>))>>),
      TextOf(<<List(<<G, X>>)>>),
      <<>>,
      <<")">> }

Request(source, content) == [source |-> source, content |-> content]

\* a settled promise of loadFromFile / loadFromURL for load l
Settled(l, ok, trees, err) == [load |-> l, ok |-> ok, trees |-> trees, err |-> err]

\* FileInputUI.loadFile(file) up to its await: loadFromFile has started the
\* reader on a file that holds `content`
loadFile(content) ==
    /\ settled = <<>>
    /\ Len(requests) < MaxRequests
    /\ requests' = Append(requests, Request("file", content))
    /\ inflight' = inflight \cup {Len(requests) + 1}
    /\ UNCHANGED <<loads, log, attempts, settled, completed>>
    /\ UNCHANGED <<parserVars, convVars, vizVars>>

\* FileInputUI.loadURL(url) up to its await: loadFromURL has started the
\* fetch of a URL that answers with `content`
loadURL(content) ==
    /\ settled = <<>>
    /\ Len(requests) < MaxRequests
    /\ requests' = Append(requests, Request("url", content))
    /\ inflight' = inflight \cup {Len(requests) + 1}
    /\ UNCHANGED <<loads, log, attempts, settled, completed>>
    /\ UNCHANGED <<parserVars, convVars, vizVars>>

\* reader.onload keeping the bindings of a load to the load
readerOnloadIsolated(l) ==
    /\ settled = <<>>
    /\ l \in inflight
    /\ requests[l].source = "file"
    /\ \E r \in {parseContent(requests[l].content, heap, leafMap)} :
           /\ heap' = r.heap
           /\ leafMap' = leafMap
           /\ settled' = Append(settled, Settled(l, r.ok, r.nodes, r.err))
    /\ loads' = Append(loads, requests[l].content)
    /\ attempts' = Append(attempts, Attempt("file", "text"))
    /\ inflight' = inflight \ {l}
    /\ UNCHANGED <<log, requests, completed>>
    /\ UNCHANGED <<parserVars, vizVars>>

\* reader.onload of load l: parseContent, then resolve(trees) or reject(error)
readerOnload(l) ==
    /\ settled = <<>>
    /\ l \in inflight
    /\ requests[l].source = "file"
    /\ \E r \in {parseContent(requests[l].content, heap, leafMap)} :
           /\ heap' = r.heap
           /\ leafMap' = r.leafMap
           /\ settled' = Append(settled, Settled(l, r.ok, r.nodes, r.err))
    /\ loads' = Append(loads, requests[l].content)
    /\ attempts' = Append(attempts, Attempt("file", "text"))
    /\ inflight' = inflight \ {l}
    /\ UNCHANGED <<log, requests, completed>>
    /\ UNCHANGED <<parserVars, vizVars>>

\* loadFromURL of load l from `await response.text()` on: parseContent, then
\* the trees are returned or the catch block rethrows
responseText(l) ==
    /\ l \in inflight
    /\ requests[l].source = "url"
    /\ \E r \in {parseContent(requests[l].content, heap, leafMap)} :
           /\ heap' = r.heap
           /\ leafMap' = r.leafMap
           /\ settled' = Append(settled,
                  Settled(l, r.ok, r.nodes,
                          IF r.ok THEN NoError ELSE loadFromURLCatch(r.err, FALSE)))
    /\ loads' = Append(loads, requests[l].content)
    /\ attempts' = Append(attempts, Attempt("url", "text"))
    /\ inflight' = inflight \ {l}
    /\ UNCHANGED <<log, requests, completed>>
    /\ UNCHANGED <<parserVars, vizVars>>

\* loadFile / loadURL from its await on, showing the trees only of the load
\* started last
awaitReturnsIfLatest ==
    /\ settled # <<>>
    /\ IF Head(settled).ok
       THEN /\ log' = Append(log, Callback("onTreeLoaded", Head(settled).trees,
                                           NoError))
            /\ IF Head(settled).load = Len(requests)
               THEN renderAll(heap, Head(settled).trees)
               ELSE UNCHANGED vizVars
       ELSE /\ log' = Append(log, Callback("onError", <<>>, Head(settled).err))
            /\ UNCHANGED vizVars
    /\ settled' = Tail(settled)
    /\ completed' = Append(completed, Head(settled).load)
    /\ UNCHANGED <<loads, attempts, requests, inflight>>
    /\ UNCHANGED <<parserVars, convVars>>

\* loadFile / loadURL from its await on, for the promise settled first:
\* onTreeLoaded(trees) -> renderAll(trees), or onError(error)
awaitReturns ==
    /\ settled # <<>>
    /\ IF Head(settled).ok
       THEN /\ log' = Append(log, Callback("onTreeLoaded", Head(settled).trees,
                                           NoError))
            /\ renderAll(heap, Head(settled).trees)
       ELSE /\ log' = Append(log, Callback("onError", <<>>, Head(settled).err))
            /\ UNCHANGED vizVars
    /\ settled' = Tail(settled)
    /\ completed' = Append(completed, Head(settled).load)
    /\ UNCHANGED <<loads, attempts, requests, inflight>>
    /\ UNCHANGED <<parserVars, convVars>>

StartFile == \E content \in AsyncContents : loadFile(content)

StartURL == \E content \in AsyncContents : loadURL(content)

FileTextArrives == \E l \in inflight : readerOnload(l)

URLTextArrives == \E l \in inflight : responseText(l)

AsyncNext ==
    StartFile \/ StartURL \/ FileTextArrives \/ URLTextArrives \/ awaitReturns

SpecAsync == SessionInit /\ [][AsyncNext]_vars


RECURSIVE OneAfterAnother(_, _, _, _)
\* the heap and the leafMap after parsing and converting the texts from the
\* i-th on one after another, each from its first to its last expression,
\* starting with heap h and map m
OneAfterAnother(texts, i, h, m) ==
    IF i > Len(texts) THEN [heap |-> h, leafMap |-> m]
    ELSE With(parseAll(texts[i]), LAMBDA sExprs :
             IF ~sExprs.ok THEN OneAfterAnother(texts, i + 1, h, m)
             ELSE With(convertEach(sExprs.vals, 1, <<>>, h, m), LAMBDA r :
                      OneAfterAnother(texts, i + 1, r.heap, r.leafMap)))

\* a step that writes the heap or leafMap is the arrival of the text of one
\* load in flight and the conversion of that whole document
WholeDocumentSteps ==
    (heap' # heap \/ leafMap' # leafMap) =>
        \E l \in inflight :
            /\ inflight' = inflight \ {l}
            /\ loads' = Append(loads, requests[l].content)
            /\ [heap |-> heap', leafMap |-> leafMap']
                   = OneAfterAnother(<<requests[l].content>>, 1, heap, leafMap)

\* C26: with several loads in flight, each document is parsed and converted
\* in one step that no step of another load's conversion falls into: every
\* step that installs a binding or creates a node converts one whole
\* document, and the heap and leafMap are at any time what converting the
\* documents one after another, in the order their texts arrived, gives.
C26_ConversionsSerialized ==
    /\ []([heap |-> heap, leafMap |-> leafMap] = OneAfterAnother(loads, 1, <<>>, <<>>))
    /\ [][WholeDocumentSteps]_vars

\* two loads that bind x were in flight at once and the text of the second
\* arrived first: x is bound as by the first load, which was converted last
C26_Witness ==
    /\ Len(requests) = 2
    /\ requests[1].content = TextOf(<<LetOf(<<Bind(X, Av)>>, X)>>)
    /\ requests[2].content = TextOf(<<LetOf(<<Bind(X, Y)>>, List(<<F, X>>))>>)
    /\ loads = <<requests[2].content, requests[1].content>>
    /\ inflight = {}
    /\ Resolved(X) = Tree(<<"x">>, <<Leaf(<<"a">>)>>)
    /\ OneAfterAnother(<<requests[1].content, requests[2].content>>, 1, <<>>, <<>>).leafMap
           # leafMap


(***************************************************************************)
(* The reach of a binding                                                  *)
(***************************************************************************)
\* a list with x before, in and after a binding form for x
SiblingsDoc == <<List(<<F, X, LetOf(<<Bind(X, Av)>>, X), X>>)>>

\* the wrapper of x in that document, written out
WrapperOfX == Tree(<<"x">>, <<Leaf(<<"a">>)>>)

\* C27: a binding outlives the body of its form.  In (f x (let ((x v)) x) x)
\* the x after the form is the form's wrapper, the node the form itself
\* gives, and the x before the form is what x was looked up to before the
\* form: a new leaf when x was not bound.  So the same document loaded twice
\* in one session gives two different trees: in the second the first x is
\* the wrapper the first load left.
C27_BindingsOutliveForm ==
    /\ \A v \in ProbeValues :
         With(convert(List(<<F, X, LetOf(<<Bind(X, v)>>, X), X>>), heap, leafMap),
              LAMBDA r :
             /\ r.ok
             /\ Len(r.heap[r.node].children) = 3
             /\ With(r.heap[r.node].children, LAMBDA kids :
                    /\ kids[1] = Lookup(leafMap, X, Len(heap)).id
                    /\ X.s \notin DOMAIN leafMap =>
                           r.heap[kids[1]] = Node(X.s, <<>>)
                    /\ kids[2] > Len(heap)
                    /\ kids[2] # kids[1]
                    /\ r.heap[kids[2]].name = X.s
                    /\ kids[3] = kids[2]
                    /\ X.s \in DOMAIN r.leafMap
                    /\ r.leafMap[X.s] = kids[2]))
    /\ (/\ Len(log) >= 1
        /\ loads[1] = TextOf(SiblingsDoc)) =>
           /\ Delivered(1)
           /\ TreeAt(heap, log[1].trees[1])
                  = Tree(<<"f">>, <<Leaf(<<"x">>), WrapperOfX, WrapperOfX>>)
    /\ (/\ Len(log) = 2
        /\ loads[1] = TextOf(SiblingsDoc)
        /\ loads[2] = TextOf(SiblingsDoc)) =>
           /\ Delivered(2)
           /\ TreeAt(heap, log[2].trees[1])
                  = Tree(<<"f">>, <<WrapperOfX, WrapperOfX, WrapperOfX>>)
           /\ heap[log[2].trees[1]].children[1] = heap[log[1].trees[1]].children[2]

\* the document was loaded twice and the two trees differ
C27_Witness ==
    /\ Len(log) = 2
    /\ loads = <<TextOf(SiblingsDoc), TextOf(SiblingsDoc)>>
    /\ Delivered(1) /\ Delivered(2)
    /\ TreeAt(heap, log[1].trees[1]) # TreeAt(heap, log[2].trees[1])
    /\ heap[heap[log[1].trees[1]].children[1]] = Node(<<"x">>, <<>>)
    /\ heap[log[1].trees[1]].children[3] = heap[log[1].trees[1]].children[2]


(***************************************************************************)
(* What a failed conversion leaves                                         *)
(***************************************************************************)
\* the names installed and whether a malformed binding was hit
Installed(names, failed) == [names |-> names, failed |-> failed]

RECURSIVE Installs(_)
RECURSIVE InstallsBindings(_, _, _)
RECURSIVE InstallsFrom(_, _)
RECURSIVE InstallsEach(_, _)

\* the names converting e installs up to the first malformed binding
Installs(e) ==
    IF ~IsList(e) THEN Installed({}, FALSE)
    ELSE IF Len(e.items) = 0 THEN Installed({}, FALSE)
    ELSE IF IsLetForm(e)
    THEN IF ~IsList(e.items[2]) THEN Installed({}, TRUE)
         ELSE InstallsBindings(e.items[2].items, 1, e.items[3])
    ELSE InstallsFrom(e.items, 2)

\* the same for the bindings from the i-th on and the body
InstallsBindings(bs, i, body) ==
    IF i > Len(bs) THEN Installs(body)
    ELSE IF BadEntry(bs[i]) THEN Installed({}, TRUE)
    ELSE With(Installs(bs[i].items[2]), LAMBDA v :
             IF v.failed THEN v
             ELSE With(InstallsBindings(bs, i + 1, body), LAMBDA rest :
                      Installed(v.names \cup {bs[i].items[1].s} \cup rest.names,
                                rest.failed)))

\* the same for the expressions xs from the i-th on, each converted
InstallsEach(xs, i) ==
    IF i > Len(xs) THEN Installed({}, FALSE)
    ELSE With(Installs(xs[i]), LAMBDA v :
             IF v.failed THEN v
             ELSE With(InstallsEach(xs, i + 1), LAMBDA rest :
                      Installed(v.names \cup rest.names, rest.failed)))

\* the same for the elements of a list from the i-th on
InstallsFrom(xs, i) ==
    IF i > Len(xs) THEN Installed({}, FALSE)
    ELSE IF i < Len(xs) /\ isKeyword(xs[i]) /\ ~isKeyword(xs[i + 1])
    THEN With(IF IsList(xs[i + 1]) THEN InstallsEach(xs[i + 1].items, 1)
              ELSE Installed({}, FALSE), LAMBDA v :
             IF v.failed THEN v
             ELSE With(InstallsFrom(xs, i + 2), LAMBDA rest :
                      Installed(v.names \cup rest.names, rest.failed)))
    ELSE With(Installs(xs[i]), LAMBDA v :
             IF v.failed THEN v
             ELSE With(InstallsFrom(xs, i + 1), LAMBDA rest :
                      Installed(v.names \cup rest.names, rest.failed)))

\* the names a document installs before its conversion fails
InstalledBeforeFailure(content) == InstallsEach(parseAll(content).vals, 1).names

\* the last load failed on a malformed binding
LastFailedOnBinding ==
    /\ log # <<>>
    /\ Len(loads) = Len(log)
    /\ log[Len(log)].cb = "onError"
    /\ log[Len(log)].err.kind \in BindingErrors

\* a document whose conversion fails on a malformed binding arrives: the
\* load fails, and what it installed before is in leafMap
FailedLoadKeepsBindings ==
    \A content \in Contents :
        (loads' = Append(loads, content) /\ MalformedDocument(content)) =>
            /\ log'[Len(log')].cb = "onError"
            /\ log'[Len(log')].trees = <<>>
            /\ UNCHANGED vizVars
            /\ \A n \in DOMAIN leafMap :
                   /\ n \in DOMAIN leafMap'
                   /\ n \notin InstalledBeforeFailure(content) => leafMap'[n] = leafMap[n]
            /\ \A n \in InstalledBeforeFailure(content) :
                   /\ n \in DOMAIN leafMap'
                   /\ leafMap'[n] > Len(heap)
                   /\ heap'[leafMap'[n]].name = n

\* the atom x is loaded after a failed load that installed x: the tree
\* delivered is the node the failed load installed
LaterLoadSeesBindings ==
    (/\ LastFailedOnBinding
     /\ X.s \in InstalledBeforeFailure(loads[Len(loads)])
     /\ loads' = Append(loads, TextOf(<<X>>))) =>
        /\ log'[Len(log')] = Callback("onTreeLoaded", <<leafMap[X.s]>>, NoError)
        /\ heap' = heap
        /\ leafMap' = leafMap

\* C28: a conversion that fails on a malformed binding does not take back
\* what it installed: the bindings of earlier entries of the same form and
\* of earlier parts of the document are in leafMap after the load has ended
\* in onError without a tree, and a later load resolves an atom of such a
\* name to the node installed.
C28_NoRollback == [][FailedLoadKeepsBindings /\ LaterLoadSeesBindings]_vars

\* (let ((x a) (y)) x) failed and x was loaded after it: the tree is the
\* wrapper the failed load made
C28_Witness ==
    /\ Len(log) = 2
    /\ loads[1] = TextOf(<<LetOf(<<Bind(X, Av), List(<<Y>>)>>, X)>>)
    /\ loads[2] = TextOf(<<X>>)
    /\ log[1].cb = "onError"
    /\ log[1].err.kind = "Expected tuple for binding"
    /\ Delivered(2)
    /\ log[2].trees = <<leafMap[<<"x">>]>>
    /\ TreeAt(heap, log[2].trees[1]) = Tree(<<"x">>, <<Leaf(<<"a">>)>>)

\* a document failed in its second expression after its first had bound x
C28_WitnessEarlierPart ==
    /\ Len(log) = 1
    /\ loads[1] = TextOf(<<LetOf(<<Bind(X, Av)>>, X), List(<<LetAtom, Y, Av>>)>>)
    /\ log[1].cb = "onError"
    /\ InstalledBeforeFailure(loads[1]) = {<<"x">>}
    /\ DOMAIN leafMap = {<<"x">>}


(***************************************************************************)
(* Loads that overtake one another                                         *)
(***************************************************************************)
\* the nodes of the root elements, in order
ShownRoots == [k \in DOMAIN rootElems |-> elems[rootElems[k]].node]

\* the loads whose promise is settled and whose callback is still to come
SettledLoads == {settled[i].load : i \in DOMAIN settled}

\* no step drops a load: a load in flight stays in flight until its text
\* arrives, whatever is started meanwhile, and a settled load stays settled
\* until its callback is called
NoLoadDropped ==
    /\ \A l \in inflight :
         l \in inflight' \/ l \in {settled'[i].load : i \in DOMAIN settled'}
    /\ \A l \in SettledLoads :
         \/ l \in {settled'[i].load : i \in DOMAIN settled'}
         \/ /\ completed' = Append(completed, l)
            /\ Len(log') = Len(log) + 1

\* C29: a load is neither cancelled nor tested for being the latest: when
\* load A is started, load B is started before A completes, and B completes
\* first, then after both have completed the display holds the trees of A,
\* the load that completed last, if A delivered trees (and still those of B
\* if A ended in onError).
C29_LastCompletedShown ==
    /\ [](/\ Len(log) = Len(completed)
          /\ \A a, b \in DOMAIN requests :
               (a < b /\ completed = <<b, a>>) =>
                   /\ Delivered(2) =>
                          /\ ShownRoots = log[2].trees
                          /\ emptyMessage = (log[2].trees = <<>>)
                   /\ (~Delivered(2) /\ Delivered(1)) =>
                          /\ ShownRoots = log[1].trees
                          /\ emptyMessage = (log[1].trees = <<>>))
    /\ [][NoLoadDropped]_vars

\* a load of (let ((x a)) x) was started, then a load of (g x), which
\* completed first: the display holds the tree named x of the first load
C29_Witness ==
    /\ Len(requests) = 2
    /\ requests[1].content = TextOf(<<LetOf(<<Bind(X, Av)>>, X)>>)
    /\ requests[2].content = TextOf(<<List(<<G, X>>)>>)
    /\ completed = <<2, 1>>
    /\ Delivered(1) /\ Delivered(2)
    /\ heap[log[1].trees[1]].name = <<"g">>
    /\ Len(rootElems) = 1
    /\ heap[elems[rootElems[1]].node].name = <<"x">>
    /\ ShownRoots # log[1].trees


(***************************************************************************)
(* The flags of an element                                                 *)
(***************************************************************************)
\* what holds of element e in every state
ElementFlags(e) ==
    /\ elems[e].hasChildren = (Len(heap[elems[e].node].children) > 0)
    /\ IF elems[e].hasChildren
       THEN \* shown only when materialised
            /\ elems[e].display = "block" => elems[e].rendered
            \* the listener's variable and the box's class tell what is shown
            /\ elems[e].isExpanded = (elems[e].display = "block")
            /\ elems[e].expanded = elems[e].isExpanded
            \* no child element before, one per child of the node after
            /\ ~elems[e].rendered =>
                   elems[e].childElems = <<>> /\ ElementsIn(e) = {}
            /\ elems[e].rendered =>
                   /\ Len(elems[e].childElems) = Len(heap[elems[e].node].children)
                   /\ Range(elems[e].childElems) = ElementsIn(e)
                   /\ Cardinality(ElementsIn(e)) = Len(heap[elems[e].node].children)
       ELSE \* no container
            /\ elems[e].display = "none"
            /\ ~elems[e].rendered
            /\ ~elems[e].isExpanded
            /\ ~elems[e].expanded
            /\ elems[e].childElems = <<>>
            /\ ElementsIn(e) = {}

\* what a click leaves: the elements there are, data-rendered once it is
\* true, and every element of a node without children as it is
ClickKeeps ==
    ClickStep =>
        \A e \in DOMAIN elems :
            /\ e \in DOMAIN elems'
            /\ elems[e].rendered => elems'[e].rendered
            /\ ~elems[e].hasChildren => elems'[e] = elems[e]

\* C30: for every element of a node with children, after any clicks: its
\* children container is shown only if its children are materialised; the
\* rendered mark, once set, stays set; the expanded flag tells whether the
\* container is shown; it has no child element while not rendered and one
\* per child of its node once rendered.  An element of a node without
\* children has no container, and no click changes it.
C30_ElementFlags == [](\A e \in DOMAIN elems : ElementFlags(e)) /\ [][ClickKeeps]_vars

\* an element was expanded and collapsed again, and another is shown open
\* with a child element that has no children
C30_Witness ==
    /\ \E e \in DOMAIN elems :
           /\ elems[e].hasChildren
           /\ elems[e].rendered
           /\ elems[e].display = "none"
           /\ Len(elems[e].childElems) >= 1
    /\ \E f \in DOMAIN elems :
           /\ elems[f].display = "block"
           /\ \E c \in ElementsIn(f) : ~elems[c].hasChildren /\ Visible(elems, c)


(***************************************************************************)
(* Termination of the parser.  A call that has been made runs on: the      *)
(* parser's steps are weakly fair.                                         *)
(***************************************************************************)
\* Longest text of a parser object that is followed to the end of its call.
MaxLiveLen == 3

LiveTexts == UNION {[1..n -> Alphabet] : n \in 0..MaxLiveLen}

ParserLiveInit == Idle /\ \E text \in LiveTexts : SExprParser(text)

SpecParserLive == ParserLiveInit /\ [][ParserNext]_vars /\ WF_vars(ParserNext)

\* from every position of the input: skipWhitespace and parseExpr leave the
\* position between where it was and the end of the input, and a parseExpr
\* that returns has read at least one character
CallsAdvance ==
    \A p \in 0..Len(input) :
        /\ skipWhitespace(input, p) \in p..Len(input)
        /\ With(parseExpr(input, p), LAMBDA r :
               /\ r.pos \in p..Len(input)
               /\ r.ok => r.pos > p)

\* a step of the parser: the position moves forward only and not past the
\* end, and an iteration of parseAll's loop that does not end the loop
\* moves it
StepsAdvance ==
    /\ pos' >= pos
    /\ pos' <= Len(input)
    /\ (ppc = "loop" /\ ppc' = "loop") => pos' > pos

\* C31: parseAll and parse end on every input.  A parseExpr that returns
\* has moved the position by at least one character, the position never
\* moves backwards nor past the end of the input, and an iteration of
\* parseAll's loop moves the position or ends the loop (break or throw).
C31_ParserTerminates ==
    /\ [](pos \in 0..Len(input) /\ CallsAdvance)
    /\ [][StepsAdvance]_vars
    /\ <>(ppc \in {"returned", "raised"})

\* parseAll returned after two iterations that reached the end of the
\* input
C31_Witness ==
    /\ ParseAllEnded
    /\ ppc = "returned"
    /\ Len(results) = 2
    /\ pos = Len(input)
    /\ ~caught

\* parseAll's loop was ended by the throw of an iteration after one that
\* moved the position
C31_WitnessRaised ==
    /\ ParseAllEnded
    /\ ppc = "raised"
    /\ Len(results) >= 1
    /\ pos < Len(input)


(***************************************************************************)
(* Where a list headed by let is a binding form                            *)
(***************************************************************************)
\* the heads of binding forms
LetHeads == {LetAtom, LetProofAtom}

\* what may stand where the bindings stand: a list of one binding, and what
\* would be malformed bindings in a binding form
ProbeBindings == {List(<<Bind(X, Av)>>), X, List(<<X>>), List(<<List(<<X>>)>>)}

\* converting e in the current state returns, installs nothing and leaves
\* the nodes there are as they are
ConvertsPlainly(e) ==
    With(convert(e, heap, leafMap), LAMBDA r :
        /\ r.ok
        /\ r.leafMap = leafMap
        /\ SubSeq(r.heap, 1, Len(heap)) = heap)

\* the node converting e in the current state gives, with the heap it is in
ConvertedNode(e) ==
    With(convert(e, heap, leafMap), LAMBDA r : [node |-> r.heap[r.node], heap |-> r.heap])

\* C32: a list headed by let or let-proof installs bindings only when it
\* has exactly 3 elements and is itself passed to convert.  With 1, 2 or 4
\* elements it is converted as a list named by its head, with one child per
\* further element.  A 3-element let form that is the first element of a
\* list gives the list's name only, and one that is the list value of a
\* keyword has its elements converted one by one: neither installs a
\* binding nor raises a malformed-binding error, whatever stands where the
\* bindings stand.
C32_LetFormOnlyWhenConverted ==
    \A head \in LetHeads : \A bs \in ProbeBindings :
        \* 1, 2 and 4 elements
        /\ \A e \in {List(<<head>>), List(<<head, bs>>), List(<<head, bs, X, Y>>)} :
             /\ ConvertsPlainly(e)
             /\ ConvertedNode(e).node.name = head.s
             /\ Len(ConvertedNode(e).node.children) = Len(e.items) - 1
        /\ With(ConvertedNode(List(<<head, bs, X, Y>>)), LAMBDA c :
               /\ IsList(bs) /\ bs.items # <<>> =>
                      c.heap[c.node.children[1]].name = Rendering(bs.items[1])
               /\ c.heap[c.node.children[3]].name = Y.s)
        \* the first element of a list
        /\ ConvertsPlainly(List(<<List(<<head, bs, X>>), Av>>))
        /\ With(ConvertedNode(List(<<List(<<head, bs, X>>), Av>>)), LAMBDA c :
               /\ c.node.name = Rendering(List(<<head, bs, X>>))
               /\ Len(c.node.children) = 1)
        \* the list value of a keyword
        /\ ConvertsPlainly(List(<<F, Kw, List(<<head, bs, X>>)>>))
        /\ With(ConvertedNode(List(<<F, Kw, List(<<head, bs, X>>)>>)), LAMBDA c :
               /\ Len(c.node.children) = 1
               /\ c.heap[c.node.children[1]].name = Kw.s
               /\ Len(c.heap[c.node.children[1]].children) = 3
               /\ c.heap[c.heap[c.node.children[1]].children[1]].name = head.s
               /\ c.heap[c.heap[c.node.children[1]].children[3]].name = X.s)
        \* passed to convert with 3 elements it is a binding form
        /\ With(convert(List(<<head, bs, X>>), heap, leafMap), LAMBDA r :
               IF bs = List(<<Bind(X, Av)>>)
               THEN /\ r.ok
                    /\ X.s \in DOMAIN r.leafMap
                    /\ r.leafMap[X.s] > Len(heap)
                    /\ r.node = r.leafMap[X.s]
               ELSE /\ ~r.ok
                    /\ r.err.kind \in BindingErrors)

\* (let ((x a)) x y) and (f :k (let ((x a)) x)) were loaded: a node named
\* let with three children, a keyword node with three children, no binding
C32_Witness ==
    /\ Len(log) = 2
    /\ loads[1] = TextOf(<<List(<<LetAtom, List(<<Bind(X, Av)>>), X, Y>>)>>)
    /\ loads[2] = TextOf(<<List(<<F, Kw, LetOf(<<Bind(X, Av)>>, X)>>)>>)
    /\ Delivered(1) /\ Delivered(2)
    /\ leafMap = <<>>
    /\ heap[log[1].trees[1]].name = LetAtom.s
    /\ Len(heap[log[1].trees[1]].children) = 3
    /\ Len(heap[heap[log[2].trees[1]].children[1]].children) = 3

\* ((let ((x a)) x) a) was loaded: a node named by the form, no binding
C32_WitnessFirst ==
    /\ Len(log) = 1
    /\ loads[1] = TextOf(<<List(<<LetOf(<<Bind(X, Av)>>, X), Av>>)>>)
    /\ Delivered(1)
    /\ leafMap = <<>>
    /\ heap[log[1].trees[1]].name = Rendering(LetOf(<<Bind(X, Av)>>, X))

====
